---------------------------- MODULE Spec2Model ----------------------------
(***************************************************************************)
(* A model of the rolfl/modbus library.                                    *)
(*                                                                         *)
(* Part I  (CacheSpec): the server cache and its atomic queue              *)
(*         (serverCache.go): the manageCache goroutine, StartAtomic,       *)
(*         execute, Complete and the typed read/write/ensure operations.   *)
(*         Every channel operation of the Go code is one step; a send on   *)
(*         an unbuffered channel and its receive are one joint step.       *)
(***************************************************************************)
EXTENDS Integers, Sequences, FiniteSets, TLC

(***************************************************************************)
(* Bounds of the model.                                                    *)
(***************************************************************************)
MaxLen == 1          \* largest count a Register.../ensure... call asks for
MaxSessions == 3     \* atomics handed out in one run
MaxOps == 3          \* operations submitted through one atomic

(***************************************************************************)
(* Program constants.                                                      *)
(***************************************************************************)
TodoCap == 5         \* make(chan func(), 5)
IllegalAddress == 2  \* IllegalAddressErrorF
NoErr == 0           \* a nil error

Callers == {"X", "Y"}
Kinds == {"discretes", "coils", "inputs", "holdings"}
BoolKinds == {"discretes", "coils"}
None == [op |-> "none"]

VARIABLES
  cache,       \* s.discretes, s.coils, s.inputs, s.holdings
  todo,        \* a.todo of every atomic made so far: the queued closures
  todoClosed,  \* close(a.todo) has happened
  doneClosed,  \* close(a.done) has happened
  mgr,         \* the manageCache goroutine: pc, its atomic a, the closure it runs
  g,           \* the calling goroutines: pc, atomic held, operation, results
  view,        \* history: what the holder of an atomic must see in the cache
  sessions,    \* number of atomics handed out
  focus,       \* the typed sequence the callers of this run work on
  txid,        \* modbus.txid
  pending,     \* modbus.pending: the txids tagged by associate
  clients,     \* modbus.clients: the units that have a client handle
  rx,          \* client.rx: the response mailbox of the client handle
  servers,     \* modbus.servers
  q,           \* the goroutines calling client operations (client.query)
  assoc,       \* the associate goroutine
  isopen,      \* tcp.isopen: the closed channel is open, the socket usable
  writerAlive, \* tcp.wireWriter is still looping
  remoteReqs,  \* request frames written to the socket, not yet answered
  inbound,     \* frames on the socket that wireReader has not yet read
  handling,    \* the handleServer goroutines
  crashed,     \* a goroutine panicked: the process is gone
  calls,       \* number of client calls started
  rreqs,       \* number of requests the remote side has sent
  files,       \* s.files
  holder,      \* the goroutine manageCache has handed its current atomic to
  hs,          \* the goroutines inside server.request: pc, request, locals
  queue,       \* serverDiagnosticManager.queue
  prev,        \* history: the last request or cache call that returned
  nreq,        \* number of requests and cache calls started
  diag,        \* serverDiagnosticManager.diagnostics: Messages, EventCounter
  script,      \* history: the frames the remote side put on the wire, in order
  wire,        \* bytes in the socket that conn.Read has not yet returned
  reader,      \* tcp.wireReader: buffer[:got], expect, ok, and whether it loops
  delivered,   \* the ADUs sent on toDemux, in order
  busDiag,     \* busDiagnosticManager.diagnostics
  rtu,         \* the RTU transport: its channels, fields and four goroutines
  devid,       \* a DeviceIdentification call: s.deviceInfo, the accumulator, the result
  buslog       \* busDiagnosticManager.logCount and logEntries, and the events logged

cacheVars == <<cache, todo, todoClosed, doneClosed, mgr, g, view, sessions, focus>>
busVars == <<txid, pending, clients, rx, servers, q, assoc, isopen, writerAlive,
             remoteReqs, inbound, handling, crashed, calls, rreqs>>
reqVars == <<files, holder, hs, queue, prev, nreq>>
wireVars == <<script, wire, reader, delivered, busDiag, rtu, devid, buslog>>
vars == <<cacheVars, busVars, reqVars, diag, wireVars>>

AtomicIds == 1..(MaxSessions + 1)

DefaultOf(k) == IF k \in BoolKinds THEN FALSE ELSE 0
ValuesOf(k) == IF k \in BoolKinds THEN BOOLEAN ELSE 0..1

SeqsUpTo(S, n) == UNION {[1..m -> S] : m \in 0..n}

\* make([]T, n): n default values
Zeros(k, n) == [i \in 1..n |-> DefaultOf(k)]

\* s[address:address+count], 0-based as in Go
Slice(s, address, count) == [i \in 1..count |-> s[address + i]]

\* copy(s[address:address+count], values)
CopyInto(s, address, values) ==
  [i \in 1..Len(s) |->
     IF i > address /\ i <= address + Len(values) THEN values[i - address] ELSE s[i]]

\* the check with the last item left out
serverCheckAddressStrict(address, count, limit) ==
  IF address + count < limit THEN NoErr ELSE IllegalAddress

serverCheckAddress(address, count, limit) ==
  IF address + count <= limit THEN NoErr ELSE IllegalAddress

\* closures whose reads clear the items they return
ApplyFnConsuming(c, fn) ==
  CASE fn.op = "write" ->
         IF serverCheckAddress(fn.address, Len(fn.values), Len(c[fn.kind])) = NoErr
         THEN [c EXCEPT ![fn.kind] = CopyInto(c[fn.kind], fn.address, fn.values)]
         ELSE c
    [] fn.op = "ensure" ->
         IF Len(c[fn.kind]) < fn.count
         THEN [c EXCEPT ![fn.kind] = c[fn.kind] \o Zeros(fn.kind, fn.count - Len(c[fn.kind]))]
         ELSE c
    [] fn.op = "read" ->
         IF serverCheckAddress(fn.address, fn.count, Len(c[fn.kind])) = NoErr
         THEN [c EXCEPT ![fn.kind] = CopyInto(c[fn.kind], fn.address,
                                              Zeros(fn.kind, fn.count))]
         ELSE c
    [] OTHER -> c

\* the effect of a closure on the typed sequences
ApplyFn(c, fn) ==
  CASE fn.op = "write" ->
         IF serverCheckAddress(fn.address, Len(fn.values), Len(c[fn.kind])) = NoErr
         THEN [c EXCEPT ![fn.kind] = CopyInto(c[fn.kind], fn.address, fn.values)]
         ELSE c
    [] fn.op = "ensure" ->
         IF Len(c[fn.kind]) < fn.count
         THEN [c EXCEPT ![fn.kind] = c[fn.kind] \o Zeros(fn.kind, fn.count - Len(c[fn.kind]))]
         ELSE c
    [] OTHER -> c

IdleCaller == [pc |-> "idle", atomic |-> 0, mode |-> "none", op |-> None,
               nops |-> 0, ret |-> <<>>, err |-> NoErr, returned |-> FALSE, wrote |-> FALSE,
               cretClosed |-> FALSE, cerrClosed |-> FALSE]

CacheInit ==
  /\ cache = [k \in Kinds |-> <<>>]
  /\ todo = [a \in AtomicIds |-> <<>>]
  /\ todoClosed = [a \in AtomicIds |-> FALSE]
  /\ doneClosed = [a \in AtomicIds |-> FALSE]
  /\ mgr = [pc |-> "offer", a |-> 1, fn |-> None]
  /\ g = [c \in Callers |-> IdleCaller]
  /\ view = [c \in Callers |-> [k \in Kinds |-> <<>>]]
  /\ sessions = 0
  /\ focus \in Kinds

(***************************************************************************)
(* StartAtomic: atomic := <-s.atomics, met by manageCache's s.atomics <- a. *)
(* mode "wrapper" is a ...Atomic / Register... call (one operation, then    *)
(* the deferred Complete), mode "manual" a caller that drives the atomic.   *)
(***************************************************************************)
StartAtomic(c) ==
  /\ g[c].pc = "idle"
  /\ mgr.pc = "offer"
  /\ sessions < MaxSessions
  /\ \E m \in {"wrapper", "manual"} :
       g' = [g EXCEPT ![c] = [IdleCaller EXCEPT !.pc = "have", !.atomic = mgr.a, !.mode = m]]
  /\ mgr' = [mgr EXCEPT !.pc = "drain"]
  /\ view' = [view EXCEPT ![c] = cache]
  /\ sessions' = sessions + 1
  /\ UNCHANGED <<cache, todo, todoClosed, doneClosed, focus, busVars, reqVars, diag, wireVars>>

\* the closures a caller may submit
Submit(c, fn) ==
  /\ g[c].pc = "have"
  /\ g[c].nops < (IF g[c].mode = "wrapper" THEN 1 ELSE MaxOps)
  /\ ~todoClosed[g[c].atomic]
  /\ Len(todo[g[c].atomic]) < TodoCap
  /\ todo' = [todo EXCEPT ![g[c].atomic] = Append(@, fn)]
  /\ g' = [g EXCEPT ![c].pc = IF fn.op = "read" THEN "recv_cret" ELSE "recv_cerr",
                    ![c].op = fn, ![c].nops = @ + 1, ![c].ret = <<>>,
                    ![c].err = NoErr, ![c].returned = FALSE,
                    ![c].cretClosed = FALSE, ![c].cerrClosed = FALSE]
  /\ UNCHANGED <<cache, todoClosed, doneClosed, mgr, view, sessions, focus, busVars, reqVars, diag, wireVars>>

\* ReadDiscretes / ReadCoils / ReadInputs / ReadHoldings: atomic.execute(func)
ReadX(c) ==
  \E k \in {focus}, address \in 0..MaxLen, count \in 0..MaxLen :
    Submit(c, [op |-> "read", by |-> c, kind |-> k, address |-> address, count |-> count])

\* WriteDiscretes / WriteCoils / WriteInputs / WriteHoldings: atomic.execute(func)
WriteX(c) ==
  \E k \in {focus}, address \in 0..MaxLen :
    \E values \in SeqsUpTo(ValuesOf(k), MaxLen) :
      Submit(c, [op |-> "write", by |-> c, kind |-> k, address |-> address, values |-> values])

\* ensureDiscretes / ensureCoils / ensureInputs / ensureHoldings (Register...)
EnsureX(c) ==
  \E k \in {focus}, count \in 0..MaxLen :
    Submit(c, [op |-> "ensure", by |-> c, kind |-> k, count |-> count])

(***************************************************************************)
(* manageCache: for fn := range a.todo { fn() }.  One step takes the next   *)
(* closure and runs it up to its first blocking channel send.               *)
(***************************************************************************)
MgrRunFn ==
  /\ mgr.pc = "drain"
  /\ todo[mgr.a] # <<>>
  /\ LET fn == Head(todo[mgr.a])
         err == IF fn.op = "read"
                THEN serverCheckAddress(fn.address, fn.count, Len(cache[fn.kind]))
                ELSE IF fn.op = "write"
                THEN serverCheckAddress(fn.address, Len(fn.values), Len(cache[fn.kind]))
                ELSE NoErr
     IN /\ todo' = [todo EXCEPT ![mgr.a] = Tail(@)]
        /\ cache' = ApplyFn(cache, fn)
        /\ view' = [view EXCEPT ![fn.by] = ApplyFn(@, fn)]
        /\ IF err # NoErr
           THEN \* cerr <- err
                /\ mgr' = [mgr EXCEPT !.pc = "send_cerr", !.fn = fn]
                /\ g' = g
           ELSE IF fn.op = "read"
           THEN \* cret <- append(make([]T, 0), s.x[address:address+count]...)
                /\ mgr' = [mgr EXCEPT !.pc = "send_cret", !.fn = fn]
                /\ g' = g
           ELSE \* the deferred close(cerr) / close(done)
                /\ mgr' = [mgr EXCEPT !.fn = None]
                /\ g' = [g EXCEPT ![fn.by].cerrClosed = TRUE,
                                  ![fn.by].wrote = @ \/ (fn.op = "write" /\ fn.values # <<>>)]
  /\ UNCHANGED <<todoClosed, doneClosed, sessions, focus, busVars, reqVars, diag, wireVars>>

\* if ret, ok := <-cret; ok { return ret, nil }
CallerRecvCret(c) ==
  /\ g[c].pc = "recv_cret"
  /\ \/ /\ mgr.pc = "send_cret" /\ mgr.fn.by = c
        /\ g' = [g EXCEPT ![c].pc = "have", ![c].returned = TRUE,
                          ![c].ret = Slice(cache[mgr.fn.kind], mgr.fn.address, mgr.fn.count),
                          ![c].err = NoErr,
                          ![c].cretClosed = TRUE, ![c].cerrClosed = TRUE]
        /\ mgr' = [mgr EXCEPT !.pc = "drain", !.fn = None]
     \/ /\ g[c].cretClosed
        /\ g' = [g EXCEPT ![c].pc = "recv_cerr"]
        /\ mgr' = mgr
  /\ UNCHANGED <<cache, todo, todoClosed, doneClosed, view, sessions, focus, busVars, reqVars, diag, wireVars>>

\* err := <-cerr
CallerRecvCerr(c) ==
  /\ g[c].pc = "recv_cerr"
  /\ \/ /\ mgr.pc = "send_cerr" /\ mgr.fn.by = c
        /\ g' = [g EXCEPT ![c].pc = "have", ![c].returned = TRUE, ![c].err = IllegalAddress,
                          ![c].cretClosed = (mgr.fn.op = "read"), ![c].cerrClosed = TRUE]
        /\ mgr' = [mgr EXCEPT !.pc = "drain", !.fn = None]
     \/ /\ g[c].cerrClosed
        /\ ~(mgr.pc = "send_cerr" /\ mgr.fn.by = c)
        /\ g' = [g EXCEPT ![c].pc = "have", ![c].returned = TRUE, ![c].err = NoErr]
        /\ mgr' = mgr
  /\ UNCHANGED <<cache, todo, todoClosed, doneClosed, view, sessions, focus, busVars, reqVars, diag, wireVars>>

\* Complete: close(a.todo)
Complete(c) ==
  /\ g[c].pc = "have"
  /\ g[c].mode = "wrapper" => g[c].nops = 1
  /\ ~todoClosed[g[c].atomic]
  /\ todoClosed' = [todoClosed EXCEPT ![g[c].atomic] = TRUE]
  /\ g' = [g EXCEPT ![c] = [IdleCaller EXCEPT !.pc = "wait_done", !.atomic = g[c].atomic,
                                              !.mode = g[c].mode]]
  /\ view' = [view EXCEPT ![c] = [k \in Kinds |-> <<>>]]
  /\ UNCHANGED <<cache, todo, doneClosed, mgr, sessions, focus, busVars, reqVars, diag, wireVars>>

\* Complete: <-a.done
CompleteDone(c) ==
  /\ g[c].pc = "wait_done"
  /\ doneClosed[g[c].atomic]
  /\ g' = [g EXCEPT ![c] = IdleCaller]
  /\ UNCHANGED <<cache, todo, todoClosed, doneClosed, mgr, view, sessions, focus, busVars, reqVars, diag, wireVars>>

\* a manager that does not wait for close(a.todo)
TodoExhaustedNoClose(a) == todo[a] = <<>>

\* the range over a.todo ends: the channel is closed and drained
TodoExhausted(a) == todo[a] = <<>> /\ todoClosed[a]

\* close(a.done); a := &atomic{...}; s.atomics <- a
MgrNextAtomic ==
  /\ mgr.pc = "drain"
  /\ TodoExhausted(mgr.a)
  /\ doneClosed' = [doneClosed EXCEPT ![mgr.a] = TRUE]
  /\ mgr' = [mgr EXCEPT !.pc = "offer", !.a = @ + 1]
  /\ UNCHANGED <<cache, todo, todoClosed, g, view, sessions, focus, busVars, reqVars, diag, wireVars>>

CacheNext ==
  \/ \E c \in Callers : StartAtomic(c)
  \/ \E c \in Callers : ReadX(c)
  \/ \E c \in Callers : WriteX(c)
  \/ \E c \in Callers : EnsureX(c)
  \/ MgrRunFn
  \/ \E c \in Callers : CallerRecvCret(c)
  \/ \E c \in Callers : CallerRecvCerr(c)
  \/ \E c \in Callers : Complete(c)
  \/ \E c \in Callers : CompleteDone(c)
  \/ MgrNextAtomic



(***************************************************************************)
(* Part II (BusSpec): the Modbus channel (client.go, the TCP transport):    *)
(* client.query, associate, demuxRX, handleServer, server.request, the     *)
(* wireWriter/wireReader goroutines and close.  The remote side of the     *)
(* socket is the environment: it answers request frames, or not, at any    *)
(* time, and sends requests of its own.                                    *)
(***************************************************************************)

(***************************************************************************)
(* Bounds of the model.                                                    *)
(***************************************************************************)
MaxEvents == 2       \* client calls started plus requests sent by the remote side
MaxInbound == 2      \* frames waiting on the socket
MaxCalls == 6        \* client calls of a run that fills a mailbox

(***************************************************************************)
(* Program constants.                                                      *)
(***************************************************************************)
RxCap == 5           \* make(chan pdu, 5)
Wildcard == 255      \* m.servers[0xff]
ServerFailure == 4   \* ServerFailureErrorF
IllegalValue == 3    \* IllegalValueErrorF
IllegalFunction == 1 \* IllegalFunctionErrorF

Goroutines == {"g1", "g2"}

\* the events a run may have
EventCap == IF focus = "mux" THEN MaxCalls ELSE MaxEvents

ClientUnit == 7                 \* mb.GetClient(7)
ReqUnits == {7, 9}              \* units the remote side addresses
RemoteTxids == {1}              \* transaction ids the remote side uses
ServerUnits == {7, 9, Wildcard} \* keys looked up in m.servers

\* the Server objects of a run and their s.id
ServerIdOf(s) == IF s = "A" THEN <<1>> ELSE <<2>>

\* the SetServer calls made when the channel was set up
Registries ==
  { [u \in ServerUnits |-> "nil"],
    [u \in ServerUnits |-> IF u = 7 THEN "A" ELSE "nil"],
    [u \in ServerUnits |-> IF u = Wildcard THEN "W" ELSE "nil"],
    [u \in ServerUnits |-> IF u = 7 THEN "A" ELSE IF u = Wildcard THEN "W" ELSE "nil"] }

\* the request PDUs the remote side sends
InboundPDUs ==
  { [function |-> 17, data |-> <<>>],      \* Report Server ID
    [function |-> 9,  data |-> <<>>],      \* no such function
    [function |-> 3,  data |-> <<0>>],     \* Read Holdings, payload too short
    [function |-> 20, data |-> <<1, 0>>] } \* Read File Record, size not 7*n

NoAdu == [request |-> FALSE, txid |-> 0, unit |-> 0, pdu |-> [function |-> 0, data |-> <<>>]]

RECURSIVE BitOr(_, _)
\* a | b on unsigned integers
BitOr(a, b) ==
  IF a = 0 THEN b ELSE IF b = 0 THEN a
  ELSE (IF a % 2 = 1 \/ b % 2 = 1 THEN 1 ELSE 0) + 2 * BitOr(a \div 2, b \div 2)

\* dataBuilder.word: big-endian
Word(w) == <<w \div 256, w % 256>>

\* the holding registers of the remote unit: register r holds 16 + r
RemoteHolding(r) == 16 + r

\* ReadHoldings(from, 1, tout): tx := pdu{0x03, word(from) word(count)}
ReadHoldingsPDU(from) == [function |-> 3, data |-> Word(from) \o Word(1)]

\* the decode callback of ReadHoldings followed by reader.remaining()
DecodeReadHoldings(data, count) ==
  IF Len(data) < 1 THEN [ok |-> FALSE, values |-> <<>>]
  ELSE IF data[1] # count * 2 THEN [ok |-> FALSE, values |-> <<>>]
  ELSE IF Len(data) < 1 + 2 * count THEN [ok |-> FALSE, values |-> <<>>]
  ELSE IF Len(data) # 1 + 2 * count THEN [ok |-> FALSE, values |-> <<>>]
  ELSE [ok |-> TRUE,
        values |-> [i \in 1..count |-> data[2 * i] * 256 + data[2 * i + 1]]]

\* what query makes of the PDU taken from the mailbox
QueryOutcome(rxp) ==
  IF rxp.function >= 128
  THEN [kind |-> "exception", code |-> IF Len(rxp.data) > 0 THEN rxp.data[1] ELSE 0,
        values |-> <<>>]
  ELSE LET d == DecodeReadHoldings(rxp.data, 1)
       IN IF d.ok THEN [kind |-> "result", code |-> 0, values |-> d.values]
          ELSE [kind |-> "decodeError", code |-> 0, values |-> <<>>]

\* the dispatch table built by NewServer: function byte -> minSize
rhandlers ==
  [f \in {1, 2, 3, 4, 5, 6, 15, 16, 22, 23, 24, 7, 43, 17, 8, 11, 12, 20, 21} |->
     CASE f \in {1, 2, 3, 4, 5, 6, 15, 16} -> 4
       [] f = 22 -> 6
       [] f = 23 -> 9
       [] f \in {24, 8} -> 2
       [] f \in {43, 20} -> 1
       [] f = 21 -> 8
       [] OTHER -> 0]

OkResult(data) == [ok |-> TRUE, data |-> data, code |-> 0, modbus |-> FALSE]
\* an *Error made by IllegalValueErrorF and friends
ModbusError(code) == [ok |-> FALSE, data |-> <<>>, code |-> code, modbus |-> TRUE]
\* an error made by fmt.Errorf
PlainError == [ok |-> FALSE, data |-> <<>>, code |-> 0, modbus |-> FALSE]

\* h.handler(mb, &req, &res) with the cursor it leaves in req: the handlers
\* of the requests in InboundPDUs
Handler(s, function, data) ==
  CASE function = 7 ->   \* x07ReadExceptionStatus
         [res |-> OkResult(<<0>>), cursor |-> 0]
    [] function = 17 ->  \* x11ReportServerID: response.nbytes(id..., 0xff)
         [res |-> OkResult(<<Len(ServerIdOf(s)) + 1>> \o ServerIdOf(s) \o <<255>>),
          cursor |-> 0]
    [] function = 20 ->  \* x14ReadFileRecord up to the sub-request loop
         IF 1 + data[1] - Len(data) > 0 THEN [res |-> PlainError, cursor |-> 1]
         ELSE IF data[1] % 7 # 0 THEN [res |-> ModbusError(IllegalValue), cursor |-> 1]
         ELSE [res |-> OkResult(<<1>>), cursor |-> 1]

\* server.request
ServerRequest(s, function, data) ==
  IF function \notin DOMAIN rhandlers THEN PlainError
  ELSE IF Len(data) < rhandlers[function] THEN PlainError
  ELSE LET h == Handler(s, function, data)
       IN IF ~h.res.ok THEN h.res
          ELSE IF Len(data) - h.cursor # 0 THEN PlainError
          ELSE h.res

\* Error.asPDU(function): p := pdu{}; p.function |= 0x80
asPDU(code, function) == [function |-> BitOr(0, 128), data |-> <<code>>]

\* the lookup with the wildcard tried first
ServerForWildcardFirst(reg, unit) ==
  IF reg[Wildcard] # "nil" THEN reg[Wildcard] ELSE reg[unit]

\* handleServer: server := m.servers[req.unit]; if nil, m.servers[0xff]
ServerFor(reg, unit) == IF reg[unit] # "nil" THEN reg[unit] ELSE reg[Wildcard]

\* handleServer up to its m.tx <- rep: the reply ADU for req
handleServer(reg, req) ==
  LET r == ServerRequest(ServerFor(reg, req.unit), req.pdu.function, req.pdu.data)
      mError == IF r.modbus THEN r.code ELSE ServerFailure
      p == IF r.ok THEN [function |-> req.pdu.function, data |-> r.data]
           ELSE asPDU(mError, req.pdu.function)
  IN [req |-> req, res |-> r,
      rep |-> [request |-> FALSE, txid |-> req.txid, unit |-> req.unit, pdu |-> p]]

IdleQuery == [pc |-> "idle", from |-> 0, tl |-> 0, a |-> NoAdu,
              outcome |-> [kind |-> "none", code |-> 0, values |-> <<>>],
              got |-> 0, atClose |-> FALSE]

BusStart ==
  /\ txid = 0
  /\ pending = {}
  /\ clients = {}
  /\ rx = <<>>
  /\ q = [c \in Goroutines |-> IdleQuery]
  /\ assoc = [pc |-> "recv", a |-> NoAdu]
  /\ isopen = TRUE
  /\ writerAlive = TRUE
  /\ remoteReqs = {}
  /\ inbound = <<>>
  /\ handling = {}
  /\ crashed = FALSE
  /\ calls = 0
  /\ rreqs = 0

\* NewTCPConn, newModbus and the SetServer calls of the set-up
BusInit == BusStart /\ servers \in Registries

\* a client operation starts: mb.GetClient(7).ReadHoldings(from, 1, tout), the
\* call-th call reading register call; query's goroutine creates its timer
\* and reads the unsynchronised counter for c.trans.txid++
QueryStart(c) ==
  /\ ~crashed
  /\ q[c].pc = "idle"
  /\ calls + rreqs < EventCap
  /\ q' = [q EXCEPT ![c] = [IdleQuery EXCEPT !.pc = "store", !.from = calls,
                                             !.tl = txid, !.atClose = ~isopen]]
  /\ clients' = clients \cup {ClientUnit}
  /\ calls' = calls + 1
  /\ UNCHANGED <<txid, pending, rx, servers, assoc, isopen, writerAlive, remoteReqs,
                 inbound, handling, crashed, rreqs, cacheVars, reqVars, diag, wireVars>>

\* c.trans.txid++ : the write, a uint16
QueryStore(c) ==
  /\ ~crashed
  /\ q[c].pc = "store"
  /\ txid' = (q[c].tl + 1) % 65536
  /\ q' = [q EXCEPT ![c].pc = "build", ![c].tl = 0]
  /\ UNCHANGED <<pending, clients, rx, servers, assoc, isopen, writerAlive,
                 remoteReqs, inbound, handling, crashed, calls, rreqs, cacheVars, reqVars, diag, wireVars>>

\* a := adu{true, c.trans.txid, byte(c.unit), tx}
QueryBuild(c) ==
  /\ ~crashed
  /\ q[c].pc = "build"
  /\ q' = [q EXCEPT ![c].pc = "send",
                    ![c].a = [request |-> TRUE, txid |-> txid, unit |-> ClientUnit,
                              pdu |-> ReadHoldingsPDU(q[c].from)]]
  /\ UNCHANGED <<txid, pending, clients, rx, servers, assoc, isopen, writerAlive,
                 remoteReqs, inbound, handling, crashed, calls, rreqs, cacheVars, reqVars, diag, wireVars>>

\* first select, case <-ticker.C: the timer has fired
QuerySendTimeout(c) ==
  /\ ~crashed
  /\ q[c].pc = "send"
  /\ q' = [q EXCEPT ![c].pc = "done", ![c].outcome.kind = "sendTimeout"]
  /\ UNCHANGED <<txid, pending, clients, rx, servers, assoc, isopen, writerAlive,
                 remoteReqs, inbound, handling, crashed, calls, rreqs, cacheVars, reqVars, diag, wireVars>>

\* first select, case c.trans.tx <- a, met by associate's range m.tx, which
\* tags the request: m.pending[a.txid] = true
QuerySend(c) ==
  /\ ~crashed
  /\ q[c].pc = "send"
  /\ assoc.pc = "recv"
  /\ assoc' = [pc |-> "fwd", a |-> q[c].a]
  /\ pending' = pending \cup {q[c].a.txid}
  /\ q' = [q EXCEPT ![c].pc = "recv"]
  /\ UNCHANGED <<txid, clients, rx, servers, isopen, writerAlive, remoteReqs,
                 inbound, handling, crashed, calls, rreqs, cacheVars, reqVars, diag, wireVars>>

\* second select, case <-ticker.C: the timer has fired
QueryRecvTimeout(c) ==
  /\ ~crashed
  /\ q[c].pc = "recv"
  /\ q' = [q EXCEPT ![c].pc = "done", ![c].outcome.kind = "recvTimeout"]
  /\ UNCHANGED <<txid, pending, clients, rx, servers, assoc, isopen, writerAlive,
                 remoteReqs, inbound, handling, crashed, calls, rreqs, cacheVars, reqVars, diag, wireVars>>

\* second select, case rx := <-c.rx, and the decoding of rx
QueryRecv(c) ==
  /\ ~crashed
  /\ q[c].pc = "recv"
  /\ rx # <<>>
  /\ q' = [q EXCEPT ![c].pc = "done", ![c].outcome = QueryOutcome(Head(rx).pdu),
                    ![c].got = Head(rx).of]
  /\ rx' = Tail(rx)
  /\ UNCHANGED <<txid, pending, clients, servers, assoc, isopen, writerAlive,
                 remoteReqs, inbound, handling, crashed, calls, rreqs, cacheVars, reqVars, diag, wireVars>>

\* err := <-c.query(...): the caller has its outcome and returns
QueryReturn(c) ==
  /\ ~crashed
  /\ q[c].pc = "done"
  /\ q' = [q EXCEPT ![c] = IdleQuery]
  /\ UNCHANGED <<txid, pending, clients, rx, servers, assoc, isopen, writerAlive,
                 remoteReqs, inbound, handling, crashed, calls, rreqs, cacheVars, reqVars, diag, wireVars>>

\* associate: to <- a, met by wireWriter's case ta := <-t.toTX, which writes
\* the frame to the socket (a failed conn.Write drops the frame)
AssociateForward ==
  /\ ~crashed
  /\ assoc.pc = "fwd"
  /\ writerAlive
  /\ assoc' = [pc |-> "recv", a |-> NoAdu]
  /\ remoteReqs' = IF isopen /\ assoc.a.request
                   THEN remoteReqs \cup {[txid |-> assoc.a.txid, unit |-> assoc.a.unit,
                                          pdu |-> assoc.a.pdu]}
                   ELSE remoteReqs
  /\ UNCHANGED <<txid, pending, clients, rx, servers, q, isopen, writerAlive,
                 inbound, handling, crashed, calls, rreqs, cacheVars, reqVars, diag, wireVars>>

\* wireWriter: case <-t.closed: alive = false
WriterExit ==
  /\ ~crashed
  /\ writerAlive
  /\ ~isopen
  /\ writerAlive' = FALSE
  /\ UNCHANGED <<txid, pending, clients, rx, servers, q, assoc, isopen,
                 remoteReqs, inbound, handling, crashed, calls, rreqs, cacheVars, reqVars, diag, wireVars>>

\* tcp.close: isopen = false; close(t.closed); t.conn.Close(): nothing more is
\* read from or written to the socket
TcpClose ==
  /\ isopen' = FALSE
  /\ inbound' = <<>>
  /\ remoteReqs' = {}
  /\ q' = [c \in Goroutines |->
             IF q[c].pc \in {"idle", "done"} THEN q[c] ELSE [q[c] EXCEPT !.atClose = TRUE]]
  /\ UNCHANGED <<txid, pending, clients, rx, servers, assoc, writerAlive,
                 handling, crashed, calls, rreqs, cacheVars, reqVars, diag, wireVars>>

\* Modbus.Close()
Close == ~crashed /\ isopen /\ TcpClose

\* wireReader: conn.Read fails: t.close()
ReaderFail == ~crashed /\ isopen /\ TcpClose

\* the answers the remote unit may give to a Read Holdings request: the
\* register, or an exception
RemoteReplies(p) ==
  { [function |-> p.function, data |-> <<2>> \o Word(RemoteHolding(p.data[2]))],
    [function |-> p.function + 128, data |-> <<IllegalAddress>>] }

\* the remote unit answers a request frame
RemoteRespond ==
  /\ ~crashed
  /\ isopen
  /\ Len(inbound) < MaxInbound
  /\ \E f \in remoteReqs :
       /\ remoteReqs' = remoteReqs \ {f}
       /\ \E p \in RemoteReplies(f.pdu) :
            inbound' = Append(inbound, [request |-> FALSE, txid |-> f.txid,
                                        unit |-> f.unit, pdu |-> p])
  /\ UNCHANGED <<txid, pending, clients, rx, servers, q, assoc, isopen, writerAlive,
                 handling, crashed, calls, rreqs, cacheVars, reqVars, diag, wireVars>>

\* the remote side sends a request of its own
RemoteRequest ==
  /\ ~crashed
  /\ isopen
  /\ Len(inbound) < MaxInbound
  /\ calls + rreqs < EventCap
  /\ \E t \in RemoteTxids, u \in ReqUnits, p \in InboundPDUs :
       inbound' = Append(inbound, [request |-> FALSE, txid |-> t, unit |-> u, pdu |-> p])
  /\ rreqs' = rreqs + 1
  /\ UNCHANGED <<txid, pending, clients, rx, servers, q, assoc, isopen, writerAlive,
                 remoteReqs, handling, crashed, calls, cacheVars, reqVars, diag, wireVars>>

\* wireReader hands the next frame to demuxRX (t.toDemux <- f), which routes it
DemuxRX ==
  /\ ~crashed
  /\ isopen
  /\ inbound # <<>>
  /\ LET adu == Head(inbound)
     IN /\ inbound' = Tail(inbound)
        /\ IF adu.txid \in pending
           THEN \* delete(m.pending, adu.txid); m.clients[adu.unit].rx <- adu.pdu
                /\ pending' = pending \ {adu.txid}
                /\ IF adu.unit \in clients
                   THEN /\ Len(rx) < RxCap
                        /\ rx' = Append(rx, [pdu |-> adu.pdu, of |-> adu.txid])
                        /\ crashed' = crashed
                   ELSE \* nil pointer dereference
                        /\ rx' = rx
                        /\ crashed' = TRUE
                /\ handling' = handling
           ELSE IF servers[adu.unit] # "nil" \/ servers[Wildcard] # "nil"
           THEN \* go m.handleServer(adu), which runs up to its m.tx <- rep
                /\ handling' = handling \cup {handleServer(servers, adu)}
                /\ UNCHANGED <<pending, rx, crashed>>
           ELSE \* nothing listens on that unit: the frame is dropped
                UNCHANGED <<pending, rx, crashed, handling>>
  /\ UNCHANGED <<txid, clients, servers, q, assoc, isopen, writerAlive,
                 remoteReqs, calls, rreqs, cacheVars, reqVars, diag, wireVars>>

\* handleServer: m.tx <- rep, met by associate's range m.tx
HandleServerSend ==
  /\ ~crashed
  /\ assoc.pc = "recv"
  /\ \E h \in handling :
       /\ handling' = handling \ {h}
       /\ assoc' = [pc |-> "fwd", a |-> h.rep]
  /\ UNCHANGED <<txid, pending, clients, rx, servers, q, isopen, writerAlive,
                 remoteReqs, inbound, crashed, calls, rreqs, cacheVars, reqVars, diag, wireVars>>

BusNext ==
  \/ \E c \in Goroutines : QueryStart(c)
  \/ \E c \in Goroutines : QueryStore(c)
  \/ \E c \in Goroutines : QueryBuild(c)
  \/ \E c \in Goroutines : QuerySendTimeout(c)
  \/ \E c \in Goroutines : QuerySend(c)
  \/ \E c \in Goroutines : QueryRecvTimeout(c)
  \/ \E c \in Goroutines : QueryRecv(c)
  \/ \E c \in Goroutines : QueryReturn(c)
  \/ AssociateForward
  \/ WriterExit
  \/ Close
  \/ ReaderFail
  \/ RemoteRespond
  \/ RemoteRequest
  \/ DemuxRX
  \/ HandleServerSend

(***************************************************************************)
(* The transport at rest: what NewTCPConn leaves behind before a byte has  *)
(* arrived.                                                                *)
(***************************************************************************)
\* newBusDiagnosticManager: dm.diagnostics = BusDiagnostics{}
NoBusDiag == [Messages |-> 0, CommErrors |-> 0, Exceptions |-> 0, Overruns |-> 0]

LogSize == 64        \* logEntries [64]int

\* newBusDiagnosticManager: logCount 0 and logEntries all 0; logged is the
\* history of the values passed to plog since creation or the last clear
NoLog == [logCount |-> 0, logEntries |-> [i \in 0..(LogSize - 1) |-> 0], logged |-> <<>>]

\* wireReader before its loop: got := 0; expect := 7; ok := true
IdleReader == [buf |-> <<>>, expect |-> 7, ok |-> TRUE, alive |-> TRUE,
               panicked |-> FALSE]

Millisecond == 1000000   \* time.Millisecond, in nanoseconds
Microsecond == 1000      \* time.Microsecond, in nanoseconds

\* count / rate seconds as a time.Duration: whole nanoseconds
\* (float64(count) / float64(rate)) * (1000000.0 * float64(time.Microsecond))
Seconds(count, rate) ==
  ((count * 1000000) \div rate) * Microsecond
  + (((count * 1000000) % rate) * Microsecond) \div rate

\* NewRTU: wp.pause and wp.idle in nanoseconds for the arguments o:
\* bc := 8 + stopbits, one more with parity; hc := bc / baud seconds as a
\* time.Duration; pause 3 * hc, idle 4 * hc, and their lower limits
Timing(o) ==
  LET bc == 8 + o.stopbits + (IF o.parity # "N" THEN 1 ELSE 0)
      hc == Seconds(bc, o.baud)
      pause == IF 3 * hc < Millisecond THEN Millisecond ELSE 3 * hc
      idle == IF 4 * hc < 2 * Millisecond THEN 2 * Millisecond ELSE 4 * hc
  IN [pause |-> IF pause < o.minFrame THEN o.minFrame ELSE pause, idle |-> idle]

\* NewRTU(device, 9600, 'E', 1, 0, dtr)
DefaultOptions == [baud |-> 9600, parity |-> "E", stopbits |-> 1, minFrame |-> 0]

\* NewRTU: the channels are empty, nothing is pending, and the goroutines
\* start: ticker in waitidle, wireReader at serial.Read, wireWriter at its
\* select on toTX, wireFramer with an empty frame
IdleRtu ==
  [mode |-> "waitidle", ticker |-> "select",
   wireReader |-> "read", rxchar |-> <<>>,
   data |-> <<>>, txready |-> 0,
   toTX |-> <<>>, wireWriter |-> "recv", f |-> NoAdu,
   pending |-> {}, txid |-> 0,
   sent |-> <<>>, queued |-> 0,
   accessors |-> [pending |-> {}, txid |-> {}],
   options |-> DefaultOptions,
   pause |-> Timing(DefaultOptions).pause, idle |-> Timing(DefaultOptions).idle]

\* nobody has called DeviceIdentification
NoDevId ==
  [deviceInfo |-> <<>>, pc |-> "idle", err |-> FALSE, ret |-> <<>>,
   fill |-> [init |-> FALSE, code |-> 0, conforms |-> 1, more |-> FALSE,
             next |-> 0, objects |-> {}]]

\* a connection nothing was sent on
WireIdle ==
  /\ script = <<>>
  /\ wire = <<>>
  /\ reader = IdleReader
  /\ delivered = <<>>
  /\ busDiag = NoBusDiag
  /\ rtu = IdleRtu
  /\ devid = NoDevId
  /\ buslog = NoLog

(***************************************************************************)
(* Part III (HandlerSpec, ApiSpec): server.request, the handlers of the    *)
(* data functions (part_000, part_008, errors.go) and the cache calls of   *)
(* the application.  A handler goroutine takes the atomic, runs its cache  *)
(* operations one step each, and gives the atomic back; the queue of Part  *)
(* I is reduced to its holder.                                             *)
(***************************************************************************)
MaxRequests == 2     \* requests served, or cache calls made, in one run

FifoMax == 31             \* x18ReadFIFO: count > 31
FileRecordLimit == 10000  \* WriteFileRecords: serverCheckAddress(.., 10000)
ServerBusy == 6           \* ServerBusyErrorF

Handlers == {"h1", "h2"}

restVars == <<todo, todoClosed, doneClosed, mgr, g, view, sessions, focus, busVars,
              wireVars>>

RECURSIVE AndInt(_, _)
\* x & y on Go ints (two's complement)
AndInt(x, y) ==
  IF x = 0 \/ y = 0 THEN 0
  ELSE IF x = -1 THEN y
  ELSE IF y = -1 THEN x
  ELSE (IF x % 2 = 1 /\ y % 2 = 1 THEN 1 ELSE 0) + 2 * AndInt(x \div 2, y \div 2)

\* ^x on a Go int
NotInt(x) == (-x) - 1

\* the mask applied without the complement of the and-mask
MaskResultNoNot(current, andMask, orMask) ==
  BitOr(AndInt(current, andMask), orMask)

\* the two masks taken for each other
MaskResultSwapped(current, andMask, orMask) ==
  BitOr(AndInt(current, orMask), AndInt(andMask, NotInt(orMask)))

\* x16MaskWriteHoldingRegister: result := (current & andMask) | (orMask & ^andMask)
MaskResult(current, andMask, orMask) ==
  BitOr(AndInt(current, andMask), AndInt(orMask, NotInt(andMask)))

\* dataBuilder.words: every word big-endian
Words(ws) ==
  [i \in 1..(2 * Len(ws)) |->
     IF i % 2 = 1 THEN ws[(i + 1) \div 2] \div 256 ELSE ws[i \div 2] % 256]

RECURSIVE PackByte(_, _, _)
\* dataBuilder.bits: packed[i] |= (1 << b) for every set bit c = 8*i + b
PackByte(bits, i, b) ==
  IF b > 7 THEN 0
  ELSE (IF 8 * i + b < Len(bits) /\ bits[8 * i + b + 1] THEN 2 ^ b ELSE 0)
       + PackByte(bits, i, b + 1)

\* dataBuilder.bits: nbytes(packed...)
Bits(bits) ==
  LET n == (Len(bits) + 7) \div 8
  IN <<n>> \o [i \in 1..n |-> PackByte(bits, i - 1, 0)]

\* a decoded request: the words and bytes the handler reads from its payload
\* extra: the payload bytes that follow the fields the handler reads
NoReq == [function |-> 0, addr |-> 0, count |-> 0, values |-> <<>>, raddr |-> 0,
          andMask |-> 0, orMask |-> 0, file |-> 0, extra |-> 0]

\* the parts of the server a run works on
Families == {"coils", "holdings", "mask", "fifo", "files", "trailing"}

\* the requests the remote client sends
RequestsOf(family) ==
  CASE family = "coils" ->
         { [NoReq EXCEPT !.function = 1, !.count = 2],
           [NoReq EXCEPT !.function = 2, !.count = 1],
           [NoReq EXCEPT !.function = 5, !.addr = 1, !.values = <<TRUE>>],
           [NoReq EXCEPT !.function = 15, !.count = 2, !.values = <<TRUE, TRUE>>] }
    [] family = "holdings" ->
         { [NoReq EXCEPT !.function = 3, !.count = 2],
           [NoReq EXCEPT !.function = 4, !.count = 1],
           [NoReq EXCEPT !.function = 6, !.addr = 1, !.values = <<7>>],
           [NoReq EXCEPT !.function = 16, !.count = 2, !.values = <<7, 8>>],
           [NoReq EXCEPT !.function = 23, !.addr = 1, !.values = <<4626, 0>>,
                         !.count = 3] }
    [] family = "mask" ->
         { [NoReq EXCEPT !.function = 22, !.andMask = 62194, !.orMask = 9509],
           [NoReq EXCEPT !.function = 22, !.andMask = 255, !.orMask = 65535],
           [NoReq EXCEPT !.function = 22, !.andMask = 21845, !.orMask = 13107],
           [NoReq EXCEPT !.function = 3, !.count = 1] }
    [] family = "fifo" ->
         { [NoReq EXCEPT !.function = 24],
           [NoReq EXCEPT !.function = 6, !.values = <<32>>],
           [NoReq EXCEPT !.function = 16, !.addr = 1, !.count = 2,
                         !.values = <<100, 200>>] }
    [] family = "files" ->
         { [NoReq EXCEPT !.function = 20, !.count = 2],
           [NoReq EXCEPT !.function = 20, !.file = 2, !.count = 1],
           [NoReq EXCEPT !.function = 21, !.addr = 1, !.values = <<5>>],
           [NoReq EXCEPT !.function = 21, !.file = 1, !.addr = 2, !.values = <<5>>] }
    [] family = "trailing" ->
         { [NoReq EXCEPT !.function = 6, !.addr = 1, !.values = <<7>>, !.extra = 1],
           [NoReq EXCEPT !.function = 16, !.count = 2, !.values = <<7, 8>>,
                         !.extra = 2],
           [NoReq EXCEPT !.function = 3, !.count = 1, !.extra = 1],
           [NoReq EXCEPT !.function = 6, !.addr = 2, !.values = <<9>>] }
    [] OTHER -> {}

\* the memory the Register... calls and the application's writes set up
MemoriesOf(family) ==
  LET Empty == [k \in Kinds |-> <<>>]
  IN CASE family = "coils" ->
            { [cache |-> [Empty EXCEPT !.coils = <<FALSE, TRUE, FALSE>>,
                                       !.discretes = <<TRUE>>], files |-> <<>>] }
       [] family = "holdings" ->
            { [cache |-> [Empty EXCEPT !.holdings = <<1, 2, 3>>, !.inputs = <<9>>],
               files |-> <<>>] }
       [] family = "mask" ->
            { [cache |-> [Empty EXCEPT !.holdings = <<v>>], files |-> <<>>] :
                v \in {0, 4626, 65535} }
       [] family = "fifo" ->
            { [cache |-> [Empty EXCEPT !.holdings = hh], files |-> <<>>] :
                hh \in {<<2, 100, 200>>, <<0, 5, 6>>, <<1, 65535, 7>>, <<3, 5, 6>>,
                        [i \in 1..(FifoMax + 1) |-> IF i = 1 THEN FifoMax ELSE i]} }
       [] family = "files" ->
            { [cache |-> Empty, files |-> << <<1, 2>>, <<>> >>] }
       [] family = "trailing" ->
            { [cache |-> [Empty EXCEPT !.holdings = <<1, 2, 3>>], files |-> <<>>] }
       [] OTHER -> {}

\* what the update callback of the application does with a write
Callbacks == {"same", "zero", "fail", "busy"}

NoSnapshot == [cache |-> [k \in Kinds |-> <<>>], files |-> <<>>]

IdleHandler ==
  [pc |-> "idle", req |-> NoReq, script |-> <<>>, got |-> <<>>, cur |-> <<>>,
   values |-> <<>>, repl |-> <<>>, cbn |-> 0, cbv |-> <<>>, cbc |-> <<>>,
   cb |-> "none", before |-> NoSnapshot, res |-> OkResult(<<>>)]

NoPrev == [op |-> "none", req |-> NoReq, cb |-> "none", before |-> NoSnapshot,
           res |-> OkResult(<<>>)]

\* nothing is being served
HandlersIdle ==
  /\ holder = "none"
  /\ hs = [h \in Handlers |-> IdleHandler]
  /\ queue = 0
  /\ prev = NoPrev
  /\ nreq = 0
  /\ diag = [Messages |-> 0, EventCounter |-> 0]

\* a server without files that serves nothing
ReqStart == files = <<>> /\ HandlersIdle

\* manageCache offers its first atomic, nobody has called StartAtomic
QueueStart ==
  /\ todo = [a \in AtomicIds |-> <<>>]
  /\ todoClosed = [a \in AtomicIds |-> FALSE]
  /\ doneClosed = [a \in AtomicIds |-> FALSE]
  /\ mgr = [pc |-> "offer", a |-> 1, fn |-> None]
  /\ g = [c \in Callers |-> IdleCaller]
  /\ view = [c \in Callers |-> [k \in Kinds |-> <<>>]]
  /\ sessions = 0

\* addRequestHandler stores the meta with event = true; notEvent() changes a
\* copy (value receiver), so every stored handler generates events
EventOf(function) == TRUE

\* the typed sequence a function works on
KindOf(function) ==
  CASE function \in {1, 5, 15} -> "coils"
    [] function = 2 -> "discretes"
    [] function = 4 -> "inputs"
    [] OTHER -> "holdings"

\* the cache operations a handler makes between StartAtomic and Complete
Script(function) ==
  CASE function \in {1, 2, 3, 4} -> <<"read">>
    [] function \in {5, 6, 15, 16} -> <<"cw_read", "cw_callback", "cw_write">>
    [] function = 22 -> <<"mask_read", "cw_read", "cw_callback", "cw_write">>
    [] function = 23 -> <<"cw_read", "cw_callback", "cw_write", "read">>
    [] function = 24 -> <<"fifo_count", "fifo_data">>
    [] function = 20 -> <<"file_read">>
    [] function = 21 -> <<"fw_read", "fw_callback", "fw_write">>
    [] OTHER -> <<>>

\* the words x18ReadFIFO starts its response with, 2 too small
FifoHeaderShort(count) == Words(<<count * 2, count>>)

\* x18ReadFIFO: response.words(count*2+2, count)
FifoHeader(count) == Words(<<count * 2 + 2, count>>)

\* the response the handler builds before it returns nil
Response(r) ==
  LET f == r.req.function
  IN CASE f \in {1, 2} -> Bits(r.got)
       [] f \in {3, 4, 23} -> <<2 * Len(r.got)>> \o Words(r.got)
       [] f = 5 -> Word(r.req.addr) \o Word(IF r.repl[1] THEN 65280 ELSE 0)
       [] f = 15 -> Word(r.req.addr) \o Word(Len(r.repl))
       [] f = 6 -> Words(<<r.req.addr, r.req.values[1]>>)
       [] f = 16 -> Words(<<r.req.addr, r.req.count>>)
       [] f = 22 -> Words(<<r.req.addr, r.req.andMask, r.req.orMask>>)
       [] f = 24 -> FifoHeader(r.cur[1]) \o Words(r.got)
       [] f = 20 -> <<1 + 2 + r.req.count * 2, 1 + Len(r.got) * 2, 6>> \o Words(r.got)
       [] f = 21 -> <<7 + 2 * Len(r.req.values), 6>>
                    \o Words(<<r.req.file, r.req.addr, Len(r.req.values)>>)
                    \o Words(r.repl)
       [] OTHER -> <<>>

\* ReadFileRecords: the records of the file at address, as many as there are
ReadFileRecords(fs, file, address, count) ==
  IF serverCheckAddress(file, 1, Len(fs)) # NoErr
  THEN [err |-> IllegalAddress, values |-> <<>>]
  ELSE LET f == fs[file + 1]
           available == Len(f) - address
       IN [err |-> NoErr,
           values |-> IF Len(f) > address
                      THEN Slice(f, address, IF available < count THEN available ELSE count)
                      ELSE <<>>]

\* WriteFileRecords: pre, pad, values and post copied into a new file
WriteFileRecords(fs, file, address, values) ==
  IF serverCheckAddress(file, 1, Len(fs)) # NoErr
  THEN [err |-> IllegalAddress, files |-> fs]
  ELSE IF serverCheckAddress(address, Len(values), FileRecordLimit) # NoErr
  THEN [err |-> IllegalAddress, files |-> fs]
  ELSE LET f == fs[file + 1]
           currentLen == Len(f)
           pre == IF currentLen < address THEN f ELSE SubSeq(f, 1, address)
           pad == IF currentLen < address THEN Zeros("holdings", address - currentLen)
                  ELSE <<>>
           vlen == address + Len(values)
           nlen == IF vlen < currentLen THEN currentLen ELSE vlen
           post == IF vlen < currentLen THEN SubSeq(f, vlen + 1, currentLen) ELSE <<>>
           \* nfile := make([]int, nlen), then copy(nfile, pre),
           \* copy(nfile[len(pre):], pad), copy(nfile[address:], values),
           \* copy(nfile[vlen:], post): a later copy overwrites an earlier one
           nfile == [i \in 1..nlen |->
                       IF i > vlen /\ i <= vlen + Len(post) THEN post[i - vlen]
                       ELSE IF i > address /\ i <= vlen THEN values[i - address]
                       ELSE IF i > Len(pre) /\ i <= Len(pre) + Len(pad) THEN pad[i - Len(pre)]
                       ELSE IF i <= Len(pre) THEN pre[i]
                       ELSE 0]
       IN [err |-> NoErr, files |-> [fs EXCEPT ![file + 1] = nfile]]

\* the step went through: on to the next operation, or to the handler's end
Advance(r) ==
  IF Len(r.script) <= 1 THEN [r EXCEPT !.script = <<>>, !.pc = "complete"]
  ELSE [r EXCEPT !.script = Tail(r.script)]

\* if err != nil { return err }
Fail(r, err) == [r EXCEPT !.script = <<>>, !.pc = "complete", !.res = err]

\* ReadX with an address out of range: the closure blocks in cerr <- err and
\* the handler in <-cret
Hang(r) == [r EXCEPT !.pc = "hung"]

\* a ReadX call of a handler
ReadOf(kind, address, count) ==
  IF serverCheckAddress(address, count, Len(cache[kind])) # NoErr
  THEN [err |-> IllegalAddress, values |-> <<>>]
  ELSE [err |-> NoErr, values |-> Slice(cache[kind], address, count)]

\* manageCache offers an atomic whether or not the one before is completed
AtomicAlwaysOffered == TRUE

\* manageCache is at s.atomics <- a: the atomic before is completed
AtomicOffered == holder = "none"

\* server.request up to the handler: s.diag.message(), s.diag.eventQueued(),
\* the deferred eventComplete, and the request decoded
Request(h) ==
  /\ hs[h].pc = "idle"
  /\ focus \in Families
  /\ nreq < MaxRequests
  /\ \E r \in RequestsOf(focus) :
       /\ hs' = [hs EXCEPT ![h] = [IdleHandler EXCEPT !.pc = "start", !.req = r,
                                                      !.values = r.values]]
       /\ queue' = IF EventOf(r.function) THEN queue - 1 ELSE queue
  /\ nreq' = nreq + 1
  /\ diag' = [diag EXCEPT !.Messages = @ + 1]
  /\ UNCHANGED <<cache, files, holder, prev, restVars>>

\* atomic := s.StartAtomic(); defer atomic.Complete()
HandlerStartAtomic(h) ==
  /\ hs[h].pc = "start"
  /\ AtomicOffered
  /\ holder' = h
  /\ hs' = [hs EXCEPT ![h].pc = "run", ![h].script = Script(hs[h].req.function),
                      ![h].before = [cache |-> cache, files |-> files]]
  /\ UNCHANGED <<cache, files, queue, prev, nreq, diag, restVars>>

\* x01..x04, x17: s.ReadX(atomic, addr, count)
HandlerRead(h) ==
  LET r == hs[h]
      kind == KindOf(r.req.function)
      address == IF r.req.function = 23 THEN r.req.raddr ELSE r.req.addr
      rd == ReadOf(kind, address, r.req.count)
  IN /\ r.pc = "run" /\ Head(r.script) = "read"
     /\ cache' = ApplyFn(cache, [op |-> "read", by |-> h, kind |-> kind,
                                 address |-> address, count |-> r.req.count])
     /\ hs' = [hs EXCEPT ![h] = IF rd.err # NoErr THEN Hang(r)
                                ELSE Advance([r EXCEPT !.got = rd.values])]
     /\ UNCHANGED <<files, holder, queue, prev, nreq, diag, restVars>>

\* x16MaskWriteHoldingRegister: value, err := s.ReadHoldings(atomic, addr, 1)
\* and the result computed from value[0]
MaskRead(h) ==
  LET r == hs[h]
      rd == ReadOf("holdings", r.req.addr, 1)
  IN /\ r.pc = "run" /\ Head(r.script) = "mask_read"
     /\ cache' = ApplyFn(cache, [op |-> "read", by |-> h, kind |-> "holdings",
                                 address |-> r.req.addr, count |-> 1])
     /\ hs' = [hs EXCEPT ![h] =
                 IF rd.err # NoErr THEN Hang(r)
                 ELSE Advance([r EXCEPT !.values =
                                 <<MaskResult(rd.values[1], r.req.andMask, r.req.orMask)>>])]
     /\ UNCHANGED <<files, holder, queue, prev, nreq, diag, restVars>>

\* xHoldingCommonWrite / xCoilsCommonWrite: current, err := s.ReadX(atomic, addr, 1)
CommonWriteRead(h) ==
  LET r == hs[h]
      kind == KindOf(r.req.function)
      rd == ReadOf(kind, r.req.addr, 1)
  IN /\ r.pc = "run" /\ Head(r.script) = "cw_read"
     /\ cache' = ApplyFn(cache, [op |-> "read", by |-> h, kind |-> kind,
                                 address |-> r.req.addr, count |-> 1])
     /\ hs' = [hs EXCEPT ![h] = IF rd.err # NoErr THEN Hang(r)
                                ELSE Advance([r EXCEPT !.cur = rd.values])]
     /\ UNCHANGED <<files, holder, queue, prev, nreq, diag, restVars>>

\* replacement, err := s.updateX(s, atomic, addr, values, current)
CommonWriteCallback(h) ==
  LET r == hs[h]
      called == [r EXCEPT !.cbn = @ + 1, !.cbv = r.values, !.cbc = r.cur]
  IN /\ r.pc = "run" /\ Head(r.script) = "cw_callback"
     /\ \E o \in Callbacks :
          hs' = [hs EXCEPT ![h] =
                   CASE o = "same" -> Advance([called EXCEPT !.cb = o, !.repl = r.values])
                     [] o = "zero" ->
                          Advance([called EXCEPT !.cb = o,
                                     !.repl = Zeros(KindOf(r.req.function), Len(r.values))])
                     [] o = "fail" -> Fail([called EXCEPT !.cb = o], PlainError)
                     [] o = "busy" -> Fail([called EXCEPT !.cb = o], ModbusError(ServerBusy))]
     /\ UNCHANGED <<cache, files, holder, queue, prev, nreq, diag, restVars>>

\* err = s.WriteX(atomic, addr, replacement)
CommonWriteWrite(h) ==
  LET r == hs[h]
      kind == KindOf(r.req.function)
      err == serverCheckAddress(r.req.addr, Len(r.repl), Len(cache[kind]))
  IN /\ r.pc = "run" /\ Head(r.script) = "cw_write"
     /\ cache' = ApplyFn(cache, [op |-> "write", by |-> h, kind |-> kind,
                                 address |-> r.req.addr, values |-> r.repl])
     /\ hs' = [hs EXCEPT ![h] = IF err # NoErr THEN Fail(r, ModbusError(err))
                                ELSE Advance(r)]
     /\ UNCHANGED <<files, holder, queue, prev, nreq, diag, restVars>>

\* x18ReadFIFO: values, err := s.ReadHoldings(atomic, addr, 1); count > 31
FifoCount(h) ==
  LET r == hs[h]
      rd == ReadOf("holdings", r.req.addr, 1)
  IN /\ r.pc = "run" /\ Head(r.script) = "fifo_count"
     /\ cache' = ApplyFn(cache, [op |-> "read", by |-> h, kind |-> "holdings",
                                 address |-> r.req.addr, count |-> 1])
     /\ hs' = [hs EXCEPT ![h] =
                 IF rd.err # NoErr THEN Hang(r)
                 ELSE IF rd.values[1] > FifoMax
                 THEN Fail([r EXCEPT !.cur = rd.values], ModbusError(IllegalValue))
                 ELSE Advance([r EXCEPT !.cur = rd.values])]
     /\ UNCHANGED <<files, holder, queue, prev, nreq, diag, restVars>>

\* x18ReadFIFO: data, err := s.ReadHoldings(atomic, addr+1, count)
FifoData(h) ==
  LET r == hs[h]
      rd == ReadOf("holdings", r.req.addr + 1, r.cur[1])
  IN /\ r.pc = "run" /\ Head(r.script) = "fifo_data"
     /\ cache' = ApplyFn(cache, [op |-> "read", by |-> h, kind |-> "holdings",
                                 address |-> r.req.addr + 1, count |-> r.cur[1]])
     /\ hs' = [hs EXCEPT ![h] = IF rd.err # NoErr THEN Hang(r)
                                ELSE Advance([r EXCEPT !.got = rd.values])]
     /\ UNCHANGED <<files, holder, queue, prev, nreq, diag, restVars>>

\* x14ReadFileRecord: recs, err := s.ReadFileRecords(atomic, file, address, count)
FileRead(h) ==
  LET r == hs[h]
      rd == ReadFileRecords(files, r.req.file, r.req.addr, r.req.count)
  IN /\ r.pc = "run" /\ Head(r.script) = "file_read"
     /\ hs' = [hs EXCEPT ![h] = IF rd.err # NoErr THEN Fail(r, ModbusError(rd.err))
                                ELSE Advance([r EXCEPT !.got = rd.values])]
     /\ UNCHANGED <<cache, files, holder, queue, prev, nreq, diag, restVars>>

\* x15WriteFileRecord: current, err := s.ReadFileRecords(atomic, file, address, len)
FileWriteRead(h) ==
  LET r == hs[h]
      rd == ReadFileRecords(files, r.req.file, r.req.addr, Len(r.req.values))
  IN /\ r.pc = "run" /\ Head(r.script) = "fw_read"
     /\ hs' = [hs EXCEPT ![h] = IF rd.err # NoErr THEN Fail(r, ModbusError(rd.err))
                                ELSE Advance([r EXCEPT !.cur = rd.values])]
     /\ UNCHANGED <<cache, files, holder, queue, prev, nreq, diag, restVars>>

\* x15WriteFileRecord: repl, err := s.updateFiles(...); err is assigned again
\* by the next statement before anything reads it
FileWriteCallback(h) ==
  LET r == hs[h]
      called == [r EXCEPT !.cbn = @ + 1, !.cbv = r.values, !.cbc = r.cur]
  IN /\ r.pc = "run" /\ Head(r.script) = "fw_callback"
     /\ \E o \in Callbacks :
          hs' = [hs EXCEPT ![h] =
                   Advance([called EXCEPT !.cb = o,
                              !.repl = CASE o = "same" -> r.values
                                         [] o = "zero" -> Zeros("holdings", Len(r.values))
                                         [] OTHER -> <<>>])]
     /\ UNCHANGED <<cache, files, holder, queue, prev, nreq, diag, restVars>>

\* x15WriteFileRecord: err = s.WriteFileRecords(atomic, file, address, repl)
FileWriteWrite(h) ==
  LET r == hs[h]
      w == WriteFileRecords(files, r.req.file, r.req.addr, r.repl)
  IN /\ r.pc = "run" /\ Head(r.script) = "fw_write"
     /\ files' = w.files
     /\ hs' = [hs EXCEPT ![h] = IF w.err # NoErr THEN Fail(r, ModbusError(w.err))
                                ELSE Advance(r)]
     /\ UNCHANGED <<cache, holder, queue, prev, nreq, diag, restVars>>

\* err = req.remaining() of server.request, after the handler returned nil
leftover(req, res) == IF req.extra # 0 THEN PlainError ELSE res

\* the handler returns: its response, and the deferred atomic.Complete();
\* server.request then checks that the handler read the whole payload
HandlerComplete(h) ==
  LET r == hs[h]
  IN /\ r.pc = "complete"
     /\ holder' = "none"
     /\ hs' = [hs EXCEPT ![h].pc = "return",
                         ![h].res = IF r.res.ok
                                    THEN leftover(r.req, OkResult(Response(r)))
                                    ELSE r.res]
     /\ UNCHANGED <<cache, files, queue, prev, nreq, diag, restVars>>

\* server.request returns: s.diag.eventCounter() after a handler without
\* error, and the deferred s.diag.eventComplete()
EventComplete(h) ==
  /\ hs[h].pc = "return"
  /\ queue' = IF EventOf(hs[h].req.function) THEN queue - 1 ELSE queue
  /\ diag' = IF EventOf(hs[h].req.function) /\ hs[h].res.ok
             THEN [diag EXCEPT !.EventCounter = @ + 1] ELSE diag
  /\ hs' = [hs EXCEPT ![h].pc = "done"]
  /\ UNCHANGED <<cache, files, holder, prev, nreq, restVars>>

\* handleServer has the result of server.request and sends the reply
Reply(h) ==
  /\ hs[h].pc = "done"
  /\ prev' = [op |-> "request", req |-> hs[h].req, cb |-> hs[h].cb,
              before |-> hs[h].before, res |-> hs[h].res]
  /\ hs' = [hs EXCEPT ![h] = IdleHandler]
  /\ UNCHANGED <<cache, files, holder, queue, nreq, diag, restVars>>

HandlerNext ==
  \/ \E h \in Handlers : Request(h)
  \/ \E h \in Handlers : HandlerStartAtomic(h)
  \/ \E h \in Handlers : HandlerRead(h)
  \/ \E h \in Handlers : MaskRead(h)
  \/ \E h \in Handlers : CommonWriteRead(h)
  \/ \E h \in Handlers : CommonWriteCallback(h)
  \/ \E h \in Handlers : CommonWriteWrite(h)
  \/ \E h \in Handlers : FifoCount(h)
  \/ \E h \in Handlers : FifoData(h)
  \/ \E h \in Handlers : FileRead(h)
  \/ \E h \in Handlers : FileWriteRead(h)
  \/ \E h \in Handlers : FileWriteCallback(h)
  \/ \E h \in Handlers : FileWriteWrite(h)
  \/ \E h \in Handlers : HandlerComplete(h)
  \/ \E h \in Handlers : EventComplete(h)
  \/ \E h \in Handlers : Reply(h)

\* a server with its memory registered, bound to no channel traffic
HandlerSpecInit ==
  /\ focus \in Families
  /\ \E m \in MemoriesOf(focus) : cache = m.cache /\ files = m.files
  /\ QueueStart /\ HandlersIdle
  /\ BusStart /\ servers \in {[u \in ServerUnits |-> "nil"]}
  /\ WireIdle

HandlerSpec == HandlerSpecInit /\ [][HandlerNext]_vars

\* the arguments the application passes to its cache calls; a run works
\* inside the files ("api") or at the last record of file 0 ("limit")
ApiFileNumbers == IF focus = "limit" THEN {0} ELSE {0, 1, 2}
ApiAddresses == IF focus = "limit" THEN {9999} ELSE {0, 1, 4}
ApiRecords == {<<>>, <<7>>, <<7, 8>>}
ApiWords == {<<5>>, <<65535>>, <<65536>>, <<-1>>}

\* WriteFileRecordsAtomic(file, address, values): StartAtomic, the write,
\* the deferred Complete
WriteFileRecordsAtomic ==
  /\ focus \in {"api", "limit"}
  /\ AtomicOffered
  /\ nreq < MaxRequests
  /\ \E file \in ApiFileNumbers, address \in ApiAddresses, values \in ApiRecords :
       LET w == WriteFileRecords(files, file, address, values)
       IN /\ files' = w.files
          /\ prev' = [op |-> "WriteFileRecords",
                      req |-> [NoReq EXCEPT !.file = file, !.addr = address,
                                            !.values = values],
                      cb |-> "none", before |-> [cache |-> cache, files |-> files],
                      res |-> IF w.err = NoErr THEN OkResult(<<>>) ELSE ModbusError(w.err)]
  /\ nreq' = nreq + 1
  /\ UNCHANGED <<cache, holder, hs, queue, diag, restVars>>

\* ReadFileRecordsAtomic(file, address, count)
ReadFileRecordsAtomic ==
  /\ focus = "api"
  /\ AtomicOffered
  /\ nreq < MaxRequests
  /\ \E file \in ApiFileNumbers, address \in ApiAddresses, count \in {1, 2} :
       LET rd == ReadFileRecords(files, file, address, count)
       IN prev' = [op |-> "ReadFileRecords",
                   req |-> [NoReq EXCEPT !.file = file, !.addr = address, !.count = count],
                   cb |-> "none", before |-> [cache |-> cache, files |-> files],
                   res |-> IF rd.err = NoErr THEN OkResult(rd.values)
                           ELSE ModbusError(rd.err)]
  /\ nreq' = nreq + 1
  /\ UNCHANGED <<cache, files, holder, hs, queue, diag, restVars>>

\* WriteInputsAtomic / WriteHoldingsAtomic(address, values)
WriteRegistersAtomic ==
  /\ focus = "api"
  /\ AtomicOffered
  /\ nreq < MaxRequests
  /\ \E kind \in {"inputs", "holdings"}, address \in {0, 1}, values \in ApiWords :
       LET err == serverCheckAddress(address, Len(values), Len(cache[kind]))
       IN /\ cache' = ApplyFn(cache, [op |-> "write", by |-> "api", kind |-> kind,
                                      address |-> address, values |-> values])
          /\ prev' = [op |-> "WriteRegisters",
                      req |-> [NoReq EXCEPT !.addr = address, !.values = values],
                      cb |-> "none", before |-> [cache |-> cache, files |-> files],
                      res |-> IF err = NoErr THEN OkResult(<<>>) ELSE ModbusError(err)]
  /\ nreq' = nreq + 1
  /\ UNCHANGED <<files, holder, hs, queue, diag, restVars>>

ApiNext ==
  \/ WriteFileRecordsAtomic
  \/ ReadFileRecordsAtomic
  \/ WriteRegistersAtomic

\* RegisterInputs(1), RegisterHoldings(2, ..), RegisterFiles(2, ..) and a
\* file already written
ApiSpecInit ==
  /\ focus \in {"api", "limit"}
  /\ cache = [k \in Kinds |-> CASE k = "holdings" -> <<1, 2>>
                                 [] k = "inputs" -> <<3>>
                                 [] OTHER -> <<>>]
  /\ files \in { << <<>>, <<>> >>, << <<1, 2, 3>>, <<>> >> }
  /\ QueueStart /\ HandlersIdle
  /\ BusStart /\ servers \in {[u \in ServerUnits |-> "nil"]}
  /\ WireIdle

ApiSpec == ApiSpecInit /\ [][ApiNext]_vars

\* the cache of a server nobody has registered anything on yet
CacheSpecInit ==
  /\ CacheInit /\ BusStart /\ servers \in {[u \in ServerUnits |-> "nil"]} /\ ReqStart
  /\ WireIdle

CacheSpec == CacheSpecInit /\ [][CacheNext]_vars

\* the channel, with the caches of its servers left alone
BusSpecInit ==
  /\ BusInit /\ CacheInit /\ focus = "holdings" /\ ReqStart
  /\ WireIdle

BusSpec == BusSpecInit /\ [][BusNext]_vars

\* the channel serving the remote side's requests while one goroutine makes
\* client calls
ServeNext ==
  \/ QueryStart("g1")
  \/ QueryStore("g1")
  \/ QueryBuild("g1")
  \/ QuerySendTimeout("g1")
  \/ QuerySend("g1")
  \/ QueryRecvTimeout("g1")
  \/ QueryRecv("g1")
  \/ QueryReturn("g1")
  \/ AssociateForward
  \/ WriterExit
  \/ Close
  \/ ReaderFail
  \/ RemoteRespond
  \/ RemoteRequest
  \/ DemuxRX
  \/ HandleServerSend

ServeSpec == BusSpecInit /\ [][ServeNext]_vars

\* the scheduler runs every goroutine that can take a step, and a timer that
\* was started fires; the caller, the remote side and Close are free
FairBusSpec ==
  /\ BusSpec
  /\ \A c \in Goroutines :
       /\ WF_vars(QueryStore(c)) /\ WF_vars(QueryBuild(c))
       /\ WF_vars(QuerySendTimeout(c) \/ QuerySend(c))
       /\ WF_vars(QueryRecvTimeout(c) \/ QueryRecv(c))
  /\ WF_vars(AssociateForward) /\ WF_vars(WriterExit)
  /\ WF_vars(DemuxRX) /\ WF_vars(HandleServerSend)

\* the scheduler runs every goroutine that can take a step
FairCacheSpec ==
  /\ CacheSpec
  /\ \A c \in Callers : WF_vars(StartAtomic(c)) /\ WF_vars(ReadX(c)) /\ WF_vars(WriteX(c))
                        /\ WF_vars(EnsureX(c)) /\ WF_vars(CallerRecvCret(c))
                        /\ WF_vars(CallerRecvCerr(c)) /\ WF_vars(Complete(c))
                        /\ WF_vars(CompleteDone(c))
  /\ WF_vars(MgrRunFn) /\ WF_vars(MgrNextAtomic)

(***************************************************************************)
(* Claims about the cache and the atomic queue.                            *)
(***************************************************************************)

\* an atomic returned by StartAtomic on which Complete has not been called
Uncompleted(c) == g[c].pc \in {"have", "recv_cret", "recv_cerr"}

\* C1: atomic isolation.  At most one atomic returned by StartAtomic is
\* un-Completed; while a caller holds it the cache is exactly what that
\* caller's own operations made of the cache it was granted (no operation of
\* another atomic ran in between), and a read returns that view: the value
\* the caller wrote itself, else the value present when it was granted.
C1_AtomicIsolation ==
  /\ Cardinality({c \in Callers : Uncompleted(c)}) <= 1
  /\ \A c \in Callers : Uncompleted(c) => cache = view[c]
  /\ \A c \in Callers :
       (g[c].pc = "have" /\ g[c].returned /\ g[c].op.op = "read" /\ g[c].err = NoErr)
         => g[c].ret = Slice(view[c][g[c].op.kind], g[c].op.address, g[c].op.count)

\* X = [read(i), write(i, v1), read(i)] has run to its second read after
\* other atomics ran
C1_Witness ==
  \E c \in Callers :
    /\ g[c].pc = "have" /\ g[c].returned /\ g[c].op.op = "read" /\ g[c].nops = 3
    /\ g[c].wrote /\ Len(g[c].ret) = 1 /\ g[c].ret[1] # DefaultOf(g[c].op.kind)
    /\ sessions = 3

\* C2: guaranteed release.  Every single-operation wrapper call eventually
\* returns to its caller, and by then the manager has closed its atomic and
\* moved on to offer the next one.
C2_GuaranteedRelease ==
  \A c \in Callers : \A a \in AtomicIds :
    (g[c].mode = "wrapper" /\ g[c].atomic = a) ~> (g[c].pc = "idle" /\ mgr.a > a)

\* the operation c waits for addresses items beyond the end of its sequence
OutOfRange(c) ==
  /\ g[c].pc \in {"recv_cret", "recv_cerr"}
  /\ g[c].op.op \in {"read", "write"}
  /\ (g[c].op.address + (IF g[c].op.op = "read" THEN g[c].op.count ELSE Len(g[c].op.values))
        > Len(cache[g[c].op.kind]))

\* C3: address bounds.  A ReadX or WriteX with address + count beyond the
\* current length of its sequence returns Illegal Data Address (code 2) to
\* the caller, and running it leaves the cache unchanged.
C3_AddressBounds ==
  /\ [][(\E c \in Callers : OutOfRange(c)) => cache' = cache]_vars
  /\ \A c \in Callers :
       OutOfRange(c) ~> (g[c].pc = "have" /\ g[c].returned /\ g[c].err = IllegalAddress)

(***************************************************************************)
(* Claims about the channel: client calls, Close and the servers.          *)
(***************************************************************************)

\* the call of c has ended with what query made of a PDU from the mailbox
Answered(c) ==
  q[c].pc = "done" /\ q[c].outcome.kind \in {"result", "exception", "decodeError"}

\* C4: per-caller response correlation.  With two goroutines calling on the
\* same client, at most one request is between its hand-over to the channel
\* and its outcome, and a call that ends with a response has decoded the
\* response to the request it sent itself.
C4_ResponseCorrelation ==
  /\ Cardinality({c \in Goroutines : q[c].pc = "recv"}) <= 1
  /\ \A c \in Goroutines : Answered(c) => q[c].got = q[c].a.txid

\* the frame demuxRX takes next is the remote unit's answer to a tagged
\* transaction nobody waits for any more
LateAtHead ==
  /\ isopen /\ ~crashed /\ inbound # <<>>
  /\ \E from \in 0..MaxEvents : Head(inbound).pdu \in RemoteReplies(ReadHoldingsPDU(from))
  /\ Head(inbound).txid \in pending
  /\ \A c \in Goroutines : ~(q[c].pc = "recv" /\ q[c].a.txid = Head(inbound).txid)

\* C5: late responses are dropped.  A response whose caller has already
\* timed out is not put into the client's mailbox, and no call ends with
\* the response to an earlier transaction.
C5_LateResponsesDropped ==
  /\ [][(LateAtHead /\ isopen') => Len(rx') <= Len(rx)]_vars
  /\ [](\A c \in Goroutines : Answered(c) => ~(q[c].got < q[c].a.txid))

\* C6: every client call terminates with an outcome for its caller, whatever
\* the transport and the remote unit do.
C6_CallTerminates ==
  \A c \in Goroutines : (q[c].pc # "idle") ~> (q[c].pc = "done")

\* C7: Close aborts pending work.  A call that was pending when the channel
\* closed, or was started after, ends with a channel-closed error and not
\* with a timeout error.
C7_CloseAborts ==
  \A c \in Goroutines :
    (q[c].pc = "done" /\ q[c].atClose) => q[c].outcome.kind = "channelClosed"

\* the frame demuxRX takes next matches no pending transaction
UnmatchedAtHead ==
  isopen /\ ~crashed /\ inbound # <<>> /\ Head(inbound).txid \notin pending

\* the reply to a Report Server ID request names the server that handled it
RepliedBy(h, s) == h.rep.pdu = [function |-> 17, data |-> <<2>> \o ServerIdOf(s) \o <<255>>]

\* C8: wildcard server routing.  A request for unit u that matches no pending
\* transaction is dropped when neither u nor 0xFF has a server and is handled
\* otherwise; it is handled by the server registered for u if there is one
\* and by the server at 0xFF if not; the reply keeps the request's txid and
\* unit, and when only 0xFF is registered it is the reply the same server
\* registered at u gives.
C8_WildcardRouting ==
  /\ [][(UnmatchedAtHead /\ isopen' /\ inbound' = Tail(inbound)) =>
          IF servers[Head(inbound).unit] = "nil" /\ servers[Wildcard] = "nil"
          THEN handling' = handling /\ assoc' = assoc /\ rx' = rx
          ELSE \E h \in handling' : h.req = Head(inbound)]_vars
  /\ [](\A h \in handling :
          /\ servers[h.req.unit] # "nil" \/ servers[Wildcard] # "nil"
          /\ h.rep.txid = h.req.txid /\ h.rep.unit = h.req.unit /\ ~h.rep.request
          /\ h.req.pdu.function = 17 =>
               IF servers[h.req.unit] # "nil" THEN RepliedBy(h, servers[h.req.unit])
               ELSE RepliedBy(h, servers[Wildcard])
          /\ servers[h.req.unit] = "nil" =>
               h.rep = handleServer([servers EXCEPT ![h.req.unit] = servers[Wildcard],
                                             ![Wildcard] = "nil"], h.req).rep)

\* a Report Server ID request for unit 7 is being answered on a channel whose
\* only server is registered at 0xFF
C8_Witness ==
  /\ servers[7] = "nil" /\ servers[Wildcard] # "nil"
  /\ \E h \in handling : h.req.unit = 7 /\ h.req.pdu.function = 17 /\ h.res.ok

\* C9: exception response format.  When the handler fails for a request
\* with function byte f, the reply handed to the channel has function byte
\* f | 0x80 and a payload of exactly one byte, the error code.
C9_ExceptionFormat ==
  \A h \in handling :
    ~h.res.ok =>
      /\ h.rep.pdu.function = BitOr(h.req.pdu.function, 128)
      /\ h.rep.pdu.data = <<IF h.res.modbus THEN h.res.code ELSE ServerFailure>>

\* C10: a request whose function byte is not in the dispatch table is
\* answered with an exception response carrying code 1, Illegal Function.
C10_UnknownFunction ==
  \A h \in handling :
    h.req.pdu.function \notin DOMAIN rhandlers =>
      h.rep.pdu.function >= 128 /\ h.rep.pdu.data = <<IllegalFunction>>

(***************************************************************************)
(* Claims about the handlers of the data functions and the cache calls     *)
(***************************************************************************)

\* the functions whose handler goes through xCoilsCommonWrite or
\* xHoldingCommonWrite
CommonWriteFunctions == {5, 6, 15, 16, 22, 23}

\* C11: write-through to the update callback.  For a remote write of n
\* values at address a, the callback is invoked exactly once, with values =
\* the n requested values and current = the n values cached at a..a+n-1
\* before the write, and the cache is as it was before the request until the
\* replacement is stored.
C11_WriteThrough ==
  \A h \in Handlers :
    LET r == hs[h]
        kind == KindOf(r.req.function)
        n == Len(r.values)
    IN (r.req.function \in CommonWriteFunctions /\ r.cbn > 0) =>
         /\ r.cbn = 1
         /\ r.req.function # 22 => r.cbv = r.req.values
         /\ Len(r.cbv) = n
         /\ r.cbc = Slice(r.before.cache[kind], r.req.addr, n)
         /\ (r.pc = "run" /\ Head(r.script) = "cw_write") => cache = r.before.cache

\* handleServer: the code of the exception reply for a failed request
ExceptionCode(res) == IF res.modbus THEN res.code ELSE ServerFailure

\* C12: when the update callback returns an error during a remote write,
\* the handler fails, the exception carries code 4 (Server Device Failure)
\* unless the error is a Modbus error, whose code it carries, and the cache
\* and the files are as they were before the request.
C12_CallbackError ==
  \A h \in Handlers :
    LET r == hs[h]
    IN (r.pc = "complete" /\ r.cb \in {"fail", "busy"}) =>
         /\ ~r.res.ok
         /\ ExceptionCode(r.res) = (IF r.cb = "busy" THEN ServerBusy ELSE ServerFailure)
         /\ cache = r.before.cache
         /\ files = r.before.files

\* C13: 16-bit value invariant.  After any sequence of cache calls every
\* value stored in inputs, holdings and file records lies in 0..65535.
C13_SixteenBit ==
  /\ \A kind \in {"inputs", "holdings"} :
       \A i \in 1..Len(cache[kind]) : cache[kind][i] \in 0..65535
  /\ \A f \in 1..Len(files) :
       \A i \in 1..Len(files[f]) : files[f][i] \in 0..65535

\* dataReader.word: the big-endian word that starts at the byte after offset
WordAt(data, offset) == data[offset + 1] * 256 + data[offset + 2]

\* C14: Read/Write Multiple Holdings (0x17) writes before it reads, inside
\* one atomic.  The response is the byte count 2 * rcount and then, for
\* every address of the read range, the value just stored there if the
\* address is in the write range, and otherwise the value the register had
\* when the atomic started: no write of another atomic shows in between.
C14_WriteBeforeRead ==
  \A h \in Handlers :
    LET r == hs[h]
        wfirst == r.req.addr
        wlast == r.req.addr + Len(r.repl) - 1
    IN (r.req.function = 23 /\ r.pc \in {"return", "done"} /\ r.res.ok) =>
         /\ Len(r.res.data) = 1 + 2 * r.req.count
         /\ r.res.data[1] = 2 * r.req.count
         /\ r.cb = "same" => r.repl = r.req.values
         /\ \A i \in 0..(r.req.count - 1) :
              LET address == r.req.raddr + i
              IN WordAt(r.res.data, 1 + 2 * i) =
                   IF address >= wfirst /\ address <= wlast
                   THEN r.repl[address - wfirst + 1]
                   ELSE r.before.cache.holdings[address + 1]

\* a 0x17 request that wrote [0x1212, 0] at 1 and read 3 registers from 0 is
\* answered with [1, 0x1212, 0], after another request was served
C14_Witness ==
  /\ prev.op = "request" /\ prev.req.function \in {6, 16} /\ prev.res.ok
  /\ \E h \in Handlers :
       /\ hs[h].req.function = 23 /\ hs[h].pc = "done" /\ hs[h].cb = "same"
       /\ hs[h].res = OkResult(<<6, 0, 1, 18, 18, 0, 0>>)

\* bit i of a 16-bit word
BitOf(x, i) == (x \div (2 ^ i)) % 2

\* C15: Mask Write Holding (0x16).  With an identity update callback the
\* register afterwards is in 0..65535 and has, in each of its 16 bits, the
\* bit of the current value where the and-mask has a 1 and the bit of the
\* or-mask where the and-mask has a 0, which is (cur AND a) OR (o AND NOT a);
\* the response is the words address, a, o.
C15_MaskWrite ==
  \A h \in Handlers :
    LET r == hs[h]
        cur == r.before.cache.holdings[r.req.addr + 1]
        now == cache.holdings[r.req.addr + 1]
        a == r.req.andMask
        o == r.req.orMask
    IN (r.req.function = 22 /\ r.cb = "same" /\ r.res.ok) =>
         /\ r.pc = "complete" =>
              /\ now \in 0..65535
              /\ \A i \in 0..15 :
                   BitOf(now, i) = IF BitOf(a, i) = 1 THEN BitOf(cur, i) ELSE BitOf(o, i)
         /\ r.pc \in {"return", "done"} =>
              r.res.data = <<r.req.addr \div 256, r.req.addr % 256,
                             a \div 256, a % 256, o \div 256, o % 256>>

\* the register held 0x1212 and the masks 0xF2F2 / 0x2525 made it 0x1717
C15_Witness ==
  \E h \in Handlers :
    /\ hs[h].req.function = 22 /\ hs[h].cb = "same" /\ hs[h].pc = "complete"
    /\ hs[h].res.ok
    /\ hs[h].req.andMask = 62194 /\ hs[h].req.orMask = 9509
    /\ hs[h].before.cache.holdings = <<4626>>
    /\ cache.holdings = <<5911>>

\* MaskWriteHolding(0, 0xF2F2, 0x2525) on a register holding 0x0000 has been
\* answered, ReadHoldings(0, 1) is the only other request, and its handler
\* has read the register and still holds its atomic
MaskThenRead(h) ==
  /\ prev.op = "request" /\ prev.req.function = 22 /\ prev.req.addr = 0
  /\ prev.req.andMask = 62194 /\ prev.req.orMask = 9509
  /\ prev.cb = "same" /\ prev.res.ok
  /\ prev.before.cache.holdings = <<0>>
  /\ nreq = 2
  /\ \A o \in Handlers \ {h} : hs[o].pc = "idle"
  /\ hs[h].req.function = 3 /\ hs[h].req.addr = 0 /\ hs[h].req.count = 1
  /\ hs[h].pc = "complete" /\ hs[h].res.ok

\* C16 as stated: with holding register 0 equal to 0x0000,
\* MaskWriteHolding(0, 0xF2F2, 0x2525) followed by ReadHoldings(0, 1)
\* returns [0x2525].
C16_MaskScenarioAsStated ==
  \A h \in Handlers :
    MaskThenRead(h) => hs[h].got = <<9509>> /\ Response(hs[h]) = <<2, 37, 37>>

\* C16 amended: with holding register 0 equal to 0x0000,
\* MaskWriteHolding(0, 0xF2F2, 0x2525) followed by ReadHoldings(0, 1)
\* returns [0x0505], which is (0 AND 0xF2F2) OR (0x2525 AND NOT 0xF2F2).
C16_MaskScenario ==
  \A h \in Handlers :
    MaskThenRead(h) => hs[h].got = <<1285>> /\ Response(hs[h]) = <<2, 5, 5>>

\* the read after the mask write has its value
C16_Witness ==
  \E h \in Handlers : MaskThenRead(h) /\ hs[h].got = <<1285>>

\* C17: Read FIFO Queue (0x18) at address a.  With c the holding value at
\* a: if c > 31 the request fails with Illegal Data Value (code 3);
\* otherwise the response is the word c*2+2, the word c, and then exactly
\* the c holding values at a+1..a+c in order.  A handler that returns has
\* found a and a+1..a+c inside the registered holdings.
C17_ReadFifo ==
  \A h \in Handlers :
    LET r == hs[h]
        a == r.req.addr
        held == r.before.cache.holdings
        c == held[a + 1]
    IN (r.req.function = 24 /\ r.pc \in {"return", "done"}) =>
         IF c > 31
         THEN ~r.res.ok /\ r.res.modbus /\ r.res.code = 3
         ELSE /\ r.res.ok
              /\ Len(r.res.data) = 4 + 2 * c
              /\ WordAt(r.res.data, 0) = c * 2 + 2
              /\ WordAt(r.res.data, 2) = c
              /\ \A i \in 1..c : WordAt(r.res.data, 2 + 2 * i) = held[a + i + 1]

\* a queue of the two values 100 and 200 has been read
C17_Witness ==
  \E h \in Handlers :
    /\ hs[h].req.function = 24 /\ hs[h].pc = "done"
    /\ hs[h].before.cache.holdings = <<2, 100, 200>>
    /\ hs[h].res = OkResult(<<0, 6, 0, 2, 0, 100, 0, 200>>)

\* Read Coils, Read Discretes, Read Holdings, Read Inputs, Read File Record
\* and Read FIFO Queue
ReadFunctions == {1, 2, 3, 4, 20, 24}

\* a step of the handler of a read request leaves the memory as it is
ReadStepKeepsMemory ==
  \A h \in Handlers :
    (hs[h].req.function \in ReadFunctions /\ hs'[h] # hs[h]) =>
      cache' = cache /\ files' = files

\* the only two requests so far are the same read: the one answered before
\* and the one of h, which has its result
SameReadTwice(h) ==
  /\ prev.op = "request" /\ prev.req.function \in ReadFunctions
  /\ nreq = 2
  /\ \A o \in Handlers \ {h} : hs[o].pc = "idle"
  /\ hs[h].req = prev.req
  /\ hs[h].pc \in {"return", "done"}

C19_FileGrowth ==
  prev.op = "WriteFileRecords" =>
    LET f == prev.req.file
        a == prev.req.addr
        v == prev.req.values
        old == prev.before.files
    IN IF f < Len(old) /\ a + Len(v) <= 10000
       THEN LET oldLen == Len(old[f + 1])
                newLen == IF oldLen > a + Len(v) THEN oldLen ELSE a + Len(v)
            IN /\ prev.res.ok
               /\ Len(files) = Len(old)
               /\ Len(files[f + 1]) = newLen
               /\ \A i \in 0..(newLen - 1) :
                    files[f + 1][i + 1] =
                      IF i >= a /\ i < a + Len(v) THEN v[i - a + 1]
                      ELSE IF i < oldLen THEN old[f + 1][i + 1]
                      ELSE 0
               /\ \A other \in 1..Len(old) : other # f + 1 => files[other] = old[other]
       ELSE /\ ~prev.res.ok /\ prev.res.modbus /\ prev.res.code = 2
            /\ files = old

\* [7, 8] written at address 4 of a file of three records: one record of
\* padding, and the file has six records
C19_Witness ==
  /\ prev.op = "WriteFileRecords" /\ prev.res.ok
  /\ prev.req.file = 0 /\ prev.req.addr = 4 /\ prev.req.values = <<7, 8>>
  /\ prev.before.files[1] = <<1, 2, 3>>
  /\ files[1] = <<1, 2, 3, 0, 7, 8>>

\* the requests that have entered server.request, passed eventQueued and not
\* yet run the deferred eventComplete
Executing ==
  {h \in Handlers : hs[h].pc \in {"start", "run", "complete", "return", "hung"}
                    /\ EventOf(hs[h].req.function)}

\* serverDiagnosticManager.busy: sdm.queue > 0
Busy == queue > 0

\* C20: busy-queue accounting.  The queue depth equals the number of
\* event-generating requests currently executing, so it is never negative
\* and is 0 when no request is in flight, and Busy() is true exactly while
\* at least one such request is executing.
C20_BusyQueue ==
  /\ queue = Cardinality(Executing)
  /\ queue >= 0
  /\ Busy <=> Executing # {}

\* the functions the specification lists as event-generating, and the others
EventFunctions == {1, 2, 3, 4, 5, 6, 15, 16, 22, 23, 24}
NonEventFunctions == {7, 8, 11, 12, 17, 20, 21, 43}

\* a request is accepted in this step
Accepted == \E h \in Handlers : hs[h].pc = "idle" /\ hs'[h].pc # "idle"

\* a request for an event-generating function returns without error in
\* this step
EventSucceeds ==
  \E h \in Handlers :
    /\ hs[h].pc = "return" /\ hs'[h].pc = "done"
    /\ hs[h].req.function \in EventFunctions /\ hs[h].res.ok

\* C21: diagnostic classification.  Every accepted request increments
\* Messages by one; EventCounter is incremented by one if and only if the
\* function is event-generating and the request succeeds; a request for a
\* non-event function changes neither EventCounter nor the busy queue.
C21_Classification ==
  [][ /\ diag'.Messages = diag.Messages + (IF Accepted THEN 1 ELSE 0)
      /\ diag'.EventCounter = diag.EventCounter + (IF EventSucceeds THEN 1 ELSE 0)
      /\ \A h \in Handlers :
           (hs'[h] # hs[h] /\ hs'[h].req.function \in NonEventFunctions) =>
             queue' = queue /\ diag'.EventCounter = diag.EventCounter ]_vars

(***************************************************************************)
(* Part IV (TcpSpec): the TCP transport of part_010.  The remote side has  *)
(* put a stream of frames into the socket; wireReader takes it out in      *)
(* reads of any size and sends what it accepts to the multiplexer.         *)
(***************************************************************************)
MaxFrames == 2       \* frames in the byte stream of a run

ReadBuffer == 300    \* wireReader: buffer := make([]uint8, 300)
MbapHeader == 7      \* wireReader: expect := 7
MaxPdu == 253        \* wireReader: pduszp > 253
MaxTcpFrame == 260   \* validFrame: len(tdata) > 260

\* getWord: uint16(data[index])<<8 | uint16(data[index+1])
getWord(data, index) == data[index + 1] * 256 + data[index + 2]

\* setWord: data[index] = byte(value >> 8); data[index+1] = byte(value & 0xFF)
setWord(value) == <<(value \div 256) % 256, value % 256>>

\* buildTCPFrame with the length field one too small
buildTCPFrameShort(td) ==
  setWord(td.txid) \o setWord(0) \o setWord((1 + Len(td.pdu.data)) % 65536)
  \o <<td.unit, td.pdu.function>> \o td.pdu.data

\* buildTCPFrame
buildTCPFrame(td) ==
  LET payload == 1 + Len(td.pdu.data)
  IN setWord(td.txid) \o setWord(0) \o setWord((1 + payload) % 65536)
     \o <<td.unit, td.pdu.function>> \o td.pdu.data

\* validFrame
validFrame(tdata) ==
  Len(tdata) # 0 /\ ~(Len(tdata) < MbapHeader) /\ ~(Len(tdata) > MaxTcpFrame)

\* decodeTCPFrame
decodeTCPFrame(tdata) ==
  [request |-> FALSE, txid |-> getWord(tdata, 0), unit |-> tdata[7],
   pdu |-> [function |-> tdata[8], data |-> SubSeq(tdata, 9, Len(tdata))]]

\* a wireReader that empties its buffer when it has taken a frame out
shiftBufferAll(buffer, expect, got) == <<>>

\* copy(buffer, buffer[expect:got]); got = got - expect
shiftBuffer(buffer, expect, got) == SubSeq(buffer, expect + 1, got)

\* one pass of the loop of wireReader after conn.Read has returned chunk:
\* got += n, the checks of the header, and then the frame sent to the
\* multiplexer, or more data awaited, or the buffer dropped.  ok is set at
\* the start of the goroutine and only ever cleared.
wireReaderPass(r, chunk) ==
  LET buffer == r.buf \o chunk
      got == Len(buffer)
      header == got >= MbapHeader
      ck == IF header THEN getWord(buffer, 2) ELSE 0
      \* getWord(buffer, 4) - 1 on uint16
      pduszp == IF header THEN (getWord(buffer, 4) + 65535) % 65536 ELSE 0
      expect == IF header /\ ~(pduszp > MaxPdu) THEN pduszp + 7 ELSE r.expect
      ok == r.ok /\ ck = 0 /\ ~(pduszp > MaxPdu)
      frame == SubSeq(buffer, 1, expect)
      full == ok /\ got >= expect
      \* decodeTCPFrame reads tdata[7]
      panics == full /\ validFrame(frame) /\ Len(frame) < 8
  IN [commError |-> IF ck # 0 THEN 1 ELSE 0,
      overrun |-> IF pduszp > MaxPdu THEN 1 ELSE 0,
      toDemux |-> IF full /\ validFrame(frame) /\ ~panics
                  THEN <<decodeTCPFrame(frame)>> ELSE <<>>,
      next |-> IF panics THEN [r EXCEPT !.buf = buffer, !.alive = FALSE,
                                        !.panicked = TRUE]
               ELSE IF full THEN [r EXCEPT !.buf = shiftBuffer(buffer, expect, got),
                                           !.expect = 7, !.ok = ok]
               ELSE IF ok THEN [r EXCEPT !.buf = buffer, !.expect = expect]
               ELSE [r EXCEPT !.buf = <<>>, !.expect = 7, !.ok = FALSE]]

\* busDiagnosticManager.overrun: bdm.diagnostics.Exceptions++
overrun(d, times) == [d EXCEPT !.Exceptions = @ + times]

\* busDiagnosticManager.commError: bdm.diagnostics.CommErrors++
commError(d, times) == [d EXCEPT !.CommErrors = @ + times]

\* busDiagnosticManager.message: bdm.diagnostics.Messages++
message(d, times) == [d EXCEPT !.Messages = @ + times]

\* the effect of one pass on the reader, the diagnostics and toDemux
WireReaderLoop(chunk) ==
  LET pass == wireReaderPass(reader, chunk)
  IN /\ reader' = pass.next
     /\ delivered' = delivered \o pass.toDemux
     /\ busDiag' = message(overrun(commError(busDiag, pass.commError), pass.overrun),
                           Len(pass.toDemux))

\* the ADUs the remote side builds frames from
TcpAdus ==
  { [request |-> TRUE, txid |-> 258, unit |-> 1,
     pdu |-> [function |-> 3, data |-> <<0, 255>>]],
    [request |-> FALSE, txid |-> 65535, unit |-> 255,
     pdu |-> [function |-> 131, data |-> <<2>>]],
    [request |-> TRUE, txid |-> 0, unit |-> 0,
     pdu |-> [function |-> 7, data |-> <<>>]] }

\* an ADU with a payload of n bytes
LongAdu(n) ==
  [request |-> TRUE, txid |-> 4660, unit |-> 17,
   pdu |-> [function |-> 16, data |-> [i \in 1..n |-> i % 256]]]

\* the frames of a stream: built by buildTCPFrame, or with a protocol id
\* that is not 0, or with a length field of 256, or a header alone with a
\* length field of 0 or 1
WireFrames ==
  IF focus = "tcplong"
  THEN { [kind |-> "frame", adu |-> LongAdu(n), bytes |-> buildTCPFrame(LongAdu(n))] :
           n \in {MaxPdu - 1, MaxPdu} }
  ELSE { [kind |-> "frame", adu |-> a, bytes |-> buildTCPFrame(a)] : a \in TcpAdus }
       \cup { [kind |-> "protocol", adu |-> NoAdu,
               bytes |-> <<0, 9, 0, 1, 0, 3, 1, 3, 7>>],
              [kind |-> "oversize", adu |-> NoAdu,
               bytes |-> <<0, 9, 0, 0, 1, 0, 1, 3, 7>>],
              [kind |-> "nolength", adu |-> NoAdu,
               bytes |-> <<0, 9, 0, 0, 0, 0, 1>>],
              [kind |-> "nofunction", adu |-> NoAdu,
               bytes |-> <<0, 9, 0, 0, 0, 1, 1>>] }

RECURSIVE Flatten(_)
\* the bytes of the frames one after the other
Flatten(frames) ==
  IF frames = <<>> THEN <<>> ELSE Head(frames).bytes \o Flatten(Tail(frames))

\* the sizes conn.Read may return when avail bytes are in the socket and
\* room bytes are free in the buffer
ReadSizes(avail, room) ==
  LET most == IF avail < room THEN avail ELSE room
  IN IF focus = "tcplong" THEN {1, MbapHeader, most - 1, most} \cap 1..most
     ELSE 1..most

\* n, err = t.conn.Read(buffer[got:]) with n > 0, and the pass that follows
TcpReaderRead ==
  /\ focus \in {"tcp", "tcplong"}
  /\ reader.alive
  /\ Len(reader.buf) < reader.expect
  /\ wire # <<>>
  /\ \E n \in ReadSizes(Len(wire), ReadBuffer - Len(reader.buf)) :
       /\ WireReaderLoop(SubSeq(wire, 1, n))
       /\ wire' = SubSeq(wire, n + 1, Len(wire))
  /\ UNCHANGED <<script, rtu, devid, buslog,
               cacheVars, busVars, reqVars, diag>>

\* got >= expect already: the pass without a read
TcpReaderNext ==
  /\ focus \in {"tcp", "tcplong"}
  /\ reader.alive
  /\ ~(Len(reader.buf) < reader.expect)
  /\ WireReaderLoop(<<>>)
  /\ UNCHANGED <<script, wire, rtu, devid, buslog,
               cacheVars, busVars, reqVars, diag>>

\* conn.Read fails (the peer has closed after its last byte): t.close(); break
TcpReaderEof ==
  /\ focus \in {"tcp", "tcplong"}
  /\ reader.alive
  /\ Len(reader.buf) < reader.expect
  /\ wire = <<>>
  /\ reader' = [reader EXCEPT !.alive = FALSE]
  /\ UNCHANGED <<script, wire, delivered, busDiag, rtu, devid, buslog,
               cacheVars, busVars, reqVars, diag>>

TcpNext ==
  \/ TcpReaderRead
  \/ TcpReaderNext
  \/ TcpReaderEof

\* NewTCPConn, and the stream the remote side has written
TcpSpecInit ==
  /\ focus \in {"tcp", "tcplong"}
  /\ script \in {f \in SeqsUpTo(WireFrames, MaxFrames) :
                   f # <<>> /\ (focus = "tcplong" => Len(f) = 1)}
  /\ wire = Flatten(script)
  /\ reader = IdleReader
  /\ delivered = <<>>
  /\ busDiag = NoBusDiag
  /\ rtu = IdleRtu
  /\ devid = NoDevId
  /\ buslog = NoLog
  /\ QueueStart /\ HandlersIdle /\ files = <<>>
  /\ cache = [k \in Kinds |-> <<>>]
  /\ BusStart /\ servers \in {[u \in ServerUnits |-> "nil"]}

TcpSpec == TcpSpecInit /\ [][TcpNext]_vars

\* the bytes wireReader has in its buffer in a step, after the read
BufferRead == reader.buf \o SubSeq(wire, 1, Len(wire) - Len(wire'))

\* the step is a pass of wireReader over a complete MBAP header
HeaderPass == reader' # reader /\ reader'.alive /\ Len(BufferRead) >= MbapHeader

\* C22: overrun accounting.  A TCP header whose length field implies a PDU
\* of more than 253 bytes increments Overruns by 1 and delivers no ADU; a
\* header whose protocol id is not 0 increments CommErrors by 1 and delivers
\* no ADU.
C22_Overruns ==
  [][ /\ (HeaderPass /\ (getWord(BufferRead, 4) + 65535) % 65536 > MaxPdu) =>
           busDiag'.Overruns = busDiag.Overruns + 1 /\ delivered' = delivered
      /\ (HeaderPass /\ getWord(BufferRead, 2) # 0) =>
           busDiag'.CommErrors = busDiag.CommErrors + 1 /\ delivered' = delivered
    ]_vars

\* wireReader has taken everything out of the socket and waits for more
TcpDrained == reader.alive /\ wire = <<>> /\ Len(reader.buf) < reader.expect

\* the ADU as the receiving side has it: decodeTCPFrame leaves request false
Received(a) == [a EXCEPT !.request = FALSE]

\* the stream is one frame made by buildTCPFrame with at most n payload bytes
OneFrame(n) ==
  Len(script) = 1 /\ script[1].kind = "frame" /\ Len(script[1].adu.pdu.data) <= n

FrameDropped == busDiag.CommErrors + busDiag.Exceptions > 0

\* the step is a read, into the empty buffer, of exactly the bytes of the
\* i-th frame of the stream, which buildTCPFrame made from an ADU in range
ReadsFrame(i) ==
  /\ reader.alive /\ reader.buf = <<>> /\ wire' # wire
  /\ script[i].kind = "frame" /\ Len(script[i].adu.pdu.data) < MaxPdu
  /\ BufferRead = script[i].bytes

\* C28: TCP framing-error recovery.  After wireReader has dropped a frame
\* because of its protocol id or its length field, a well-formed frame that
\* arrives afterwards on the same connection is delivered to the multiplexer.
C28_Recovery ==
  [][ \A i \in 1..Len(script) :
        (FrameDropped /\ ReadsFrame(i)) =>
          delivered' = Append(delivered, Received(script[i].adu)) ]_vars

\* every frame of the stream was made by buildTCPFrame from an ADU in range
WellFormedStream ==
  \A i \in 1..Len(script) :
    script[i].kind = "frame" /\ Len(script[i].adu.pdu.data) < MaxPdu

\* the ADUs of the first n frames of the stream, as the receiver has them
StreamAdus(n) == [i \in 1..n |-> Received(script[i].adu)]

\* C29: TCP reassembly is independent of segmentation.  Whatever the sizes
\* of the reads, a stream of well-formed frames is delivered frame by frame
\* in stream order: what has been delivered are the first frames of the
\* stream, the bytes in the buffer and in the socket are the frames not yet
\* delivered, and when the reader has drained the socket every frame has
\* been delivered once.
C29_Reassembly ==
  WellFormedStream =>
    /\ Len(delivered) <= Len(script)
    /\ delivered = StreamAdus(Len(delivered))
    /\ reader.buf \o wire = Flatten(SubSeq(script, Len(delivered) + 1, Len(script)))
    /\ TcpDrained => delivered = StreamAdus(Len(script))

\* the first of two frames is delivered and the second is split between the
\* buffer and the socket
C29_Witness ==
  /\ WellFormedStream /\ Len(script) = 2 /\ Len(delivered) = 1
  /\ reader.buf # <<>> /\ wire # <<>>

(***************************************************************************)
(* Part V (RtuSpec): the RTU transport of part_010.  wireReader takes the  *)
(* bytes off the serial line, ticker turns the pauses of the line into the *)
(* end of a frame (rxto) and the permission to transmit (txready),         *)
(* wireFramer collects the bytes and validates the frame, wireWriter sends *)
(* the frames of toTX.  The two timers of ticker are abstracted to "may    *)
(* expire whenever ticker waits for them".                                 *)
(***************************************************************************)
MaxTx == 2           \* frames the multiplexer queues on toTX in a run
MaxSerial == 1       \* frames the remote units put on the serial line in a run

ToTXCap == 5         \* NewRTU: wp.toTX = make(chan adu, 5)
RxCharCap == 300     \* NewRTU: wp.rxchar = make(chan byte, 300)
FramerLimit == 260   \* wireFramer: len(data) < 260
MinRtuFrame == 4     \* handleFrame: len(frame) < 4
MaxRtuFrame == 256   \* handleFrame: len(frame) > 256
SerialBuffer == 256  \* rtu.wireReader: buffer := make([]byte, 256)
CrcInit == 65535     \* computeCRC16: crc = 0xFFFF
CrcPoly == 40961     \* computeCRC16: crc ^= 0xA001

RECURSIVE XorInt(_, _)
\* x ^ y on unsigned values
XorInt(x, y) ==
  IF x = 0 THEN y
  ELSE IF y = 0 THEN x
  ELSE (((x % 2) + (y % 2)) % 2) + 2 * XorInt(x \div 2, y \div 2)

\* computeCRC16, the inner loop: s[2] more rounds of shift and conditional
\* xor on the crc s[1]
crcShift[s \in Nat \X Nat] ==
  IF s[2] = 0 THEN s[1]
  ELSE crcShift[<<IF s[1] % 2 = 1 THEN XorInt(s[1] \div 2, CrcPoly) ELSE s[1] \div 2,
                  s[2] - 1>>]

\* computeCRC16: the outer loop over the bytes in order (the bytes lo..hi
\* from the crc r[1]: the first half, then the second)
computeCRC16(data) ==
  LET crcRange[r \in Nat \X Nat \X Nat] ==
        IF r[2] > r[3] THEN r[1]
        ELSE IF r[2] = r[3] THEN crcShift[<<XorInt(r[1], data[r[2]]), 8>>]
        ELSE LET mid == (r[2] + r[3]) \div 2
             IN crcRange[<<crcRange[<<r[1], r[2], mid>>], mid + 1, r[3]>>]
  IN crcRange[<<CrcInit, 1, Len(data)>>]

\* getWordLE: uint16(data[index]) | uint16(data[index+1])<<8
getWordLE(data, index) == data[index + 1] + data[index + 2] * 256

\* setWordLE with the bytes in big-endian order
setWordLESwapped(value) == <<(value \div 256) % 256, value % 256>>

\* setWordLE: data[index] = byte(value & 0xFF); data[index+1] = byte(value >> 8)
setWordLE(value) == <<value % 256, (value \div 256) % 256>>

\* buildRTUFrame
buildRTUFrame(f) ==
  LET body == <<f.unit, f.pdu.function>> \o f.pdu.data
  IN body \o setWordLE(computeCRC16(body))

\* rtu.pending[unit] = txid
PendingPut(pend, unit, id) ==
  {e \in pend : e.unit # unit} \cup {[unit |-> unit, txid |-> id]}

\* txid, ok := rtu.pending[unit]
PendingHas(pend, unit) == \E e \in pend : e.unit = unit

PendingGet(pend, unit) == (CHOOSE e \in pend : e.unit = unit).txid

\* handleFrame: what it does to the diagnostics, rtu.pending and rtu.txid,
\* and what it sends on toDemux
handleFrame(frame, r, d) ==
  LET n == Len(frame)
      none == [busDiag |-> d, toDemux |-> <<>>, pending |-> r.pending,
               txid |-> r.txid, accessed |-> FALSE]
  IN IF n = 0 THEN none
     ELSE IF n < MinRtuFrame THEN [none EXCEPT !.busDiag = commError(d, 1)]
     ELSE IF n > MaxRtuFrame THEN [none EXCEPT !.busDiag = overrun(d, 1)]
     ELSE IF computeCRC16(SubSeq(frame, 1, n - 2)) # getWordLE(frame, n - 2)
     THEN [none EXCEPT !.busDiag = commError(d, 1)]
     ELSE LET unit == frame[1]
              p == [function |-> frame[2], data |-> SubSeq(frame, 3, n - 2)]
              ok == PendingHas(r.pending, unit)
              id == IF ok THEN PendingGet(r.pending, unit) ELSE (r.txid + 1) % 65536
          IN [busDiag |-> message(d, 1),
              toDemux |-> <<[request |-> FALSE, txid |-> id, unit |-> unit, pdu |-> p]>>,
              pending |-> IF ok THEN {e \in r.pending : e.unit # unit} ELSE r.pending,
              txid |-> IF ok THEN r.txid ELSE id,
              accessed |-> TRUE]

\* busDiagnosticManager.response: an exception response counts in Exceptions
response(d, p) == IF p.function >= 128 THEN [d EXCEPT !.Exceptions = @ + 1] ELSE d

\* the ADUs the remote units answer or ask with
RtuAdus ==
  { [request |-> FALSE, txid |-> 0, unit |-> 1,
     pdu |-> [function |-> 3, data |-> <<255>>]],
    [request |-> FALSE, txid |-> 0, unit |-> 0,
     pdu |-> [function |-> 7, data |-> <<>>]] }

\* an ADU with n payload bytes
LongRtuAdu(n) ==
  [request |-> FALSE, txid |-> 0, unit |-> 17,
   pdu |-> [function |-> 16, data |-> [i \in 1..n |-> (7 * i) % 256]]]

\* the last byte of the frame changed
Damaged(frame) == [frame EXCEPT ![Len(frame)] = (@ + 1) % 256]

\* the frames of a run of the serial line, each with the bytes and with the
\* reads (of at most 256 bytes) it arrives in: frames built by
\* buildRTUFrame, one with a wrong CRC, one of 3 bytes, and long ones
SerialFrames ==
  IF focus = "rtulong"
  THEN { LET b == buildRTUFrame(LongRtuAdu(n))
         IN [kind |-> "frame", adu |-> LongRtuAdu(n), bytes |-> b,
             bursts |-> IF Len(b) > SerialBuffer
                        THEN <<SubSeq(b, 1, SerialBuffer),
                               SubSeq(b, SerialBuffer + 1, Len(b))>>
                        ELSE <<b>>] : n \in {MaxRtuFrame - 4, MaxRtuFrame - 3} }
  ELSE { [kind |-> "frame", adu |-> a, bytes |-> buildRTUFrame(a),
          bursts |-> <<buildRTUFrame(a)>>] : a \in RtuAdus }
       \cup { [kind |-> "crc", adu |-> NoAdu, bytes |-> Damaged(buildRTUFrame(a)),
               bursts |-> <<Damaged(buildRTUFrame(a))>>] :
                a \in {x \in RtuAdus : x.unit = 1} }
       \cup { [kind |-> "short", adu |-> NoAdu, bytes |-> <<1, 3, 0>>,
               bursts |-> << <<1, 3, 0>> >>] }

RECURSIVE Bursts(_)
\* the reads of the frames one after the other
Bursts(frames) ==
  IF frames = <<>> THEN <<>> ELSE Head(frames).bursts \o Bursts(Tail(frames))

\* the n-th ADU the multiplexer queues: requests to unit 1 with the
\* transaction ids associate gave them, and every second one an exception
\* response of local unit 2
Outbound(n) ==
  IF n % 2 = 1
  THEN [request |-> TRUE, txid |-> 4 + n, unit |-> 1,
        pdu |-> [function |-> 3, data |-> <<0, 0, 0, 1>>]]
  ELSE [request |-> FALSE, txid |-> 9, unit |-> 2,
        pdu |-> [function |-> 131, data |-> <<2>>]]

\* the multiplexer's wireWriter side: m.toTX <- a
RtuQueue ==
  /\ focus = "rtu"
  /\ rtu.queued < MaxTx
  /\ Len(rtu.toTX) < ToTXCap
  /\ rtu' = [rtu EXCEPT !.toTX = Append(@, Outbound(rtu.queued + 1)),
                        !.queued = @ + 1]
  /\ UNCHANGED <<script, wire, reader, delivered, busDiag, devid, buslog,
               cacheVars, busVars, reqVars, diag>>

\* wireReader: serial.Read returns bytes, rtu.rxtoc <- true is taken by
\* ticker at its select (mode = waitframe), and the bytes go into rxchar
RtuRead ==
  /\ focus \in {"rtu", "rtulong"}
  /\ rtu.wireReader = "read"
  /\ wire # <<>>
  /\ rtu.ticker = "select"
  /\ Len(rtu.rxchar) + Len(Head(wire)) <= RxCharCap
  /\ rtu' = [rtu EXCEPT !.wireReader = "drain", !.rxchar = @ \o Head(wire),
                        !.mode = "waitframe"]
  /\ wire' = Tail(wire)
  /\ UNCHANGED <<script, reader, delivered, busDiag, devid, buslog,
               cacheVars, busVars, reqVars, diag>>

\* wireReader: select { case <-rtu.txready: default: }
RtuDrain ==
  /\ focus \in {"rtu", "rtulong"}
  /\ rtu.wireReader = "drain"
  /\ rtu' = [rtu EXCEPT !.wireReader = "read", !.txready = 0]
  /\ UNCHANGED <<script, wire, reader, delivered, busDiag, devid, buslog,
               cacheVars, busVars, reqVars, diag>>

\* wireFramer: case ch := <-rtu.rxchar
FramerChar ==
  /\ focus \in {"rtu", "rtulong"}
  /\ rtu.rxchar # <<>>
  /\ rtu' = [rtu EXCEPT !.rxchar = Tail(@),
                        !.data = IF Len(@) < FramerLimit
                                 THEN Append(@, Head(rtu.rxchar)) ELSE @]
  /\ UNCHANGED <<script, wire, reader, delivered, busDiag, devid, buslog,
               cacheVars, busVars, reqVars, diag>>

\* ticker: the timer expires in waitidle: rtu.txready <- true; mode = isidle.
\* The send blocks while the token of the last idle period is still there.
TickerIdle ==
  /\ focus \in {"rtu", "rtulong"}
  /\ rtu.ticker = "select"
  /\ rtu.mode = "waitidle"
  /\ rtu' = IF rtu.txready = 0
            THEN [rtu EXCEPT !.txready = 1, !.mode = "isidle"]
            ELSE [rtu EXCEPT !.ticker = "txready"]
  /\ UNCHANGED <<script, wire, reader, delivered, busDiag, devid, buslog,
               cacheVars, busVars, reqVars, diag>>

\* ticker: the blocked rtu.txready <- true goes through
TickerUnblock ==
  /\ focus \in {"rtu", "rtulong"}
  /\ rtu.ticker = "txready"
  /\ rtu.txready = 0
  /\ rtu' = [rtu EXCEPT !.txready = 1, !.mode = "isidle", !.ticker = "select"]
  /\ UNCHANGED <<script, wire, reader, delivered, busDiag, devid, buslog,
               cacheVars, busVars, reqVars, diag>>

\* ticker: the timer expires in waitframe: rtu.rxto <- true; mode = waitidle,
\* and wireFramer, which takes rxto: rtu.handleFrame(data), then a new frame.
\* The runs with long frames are those in which the bytes of a read have
\* reached wireFramer before the timer expires.
TickerPause ==
  /\ focus \in {"rtu", "rtulong"}
  /\ rtu.ticker = "select"
  /\ rtu.mode = "waitframe"
  /\ focus = "rtulong" => rtu.rxchar = <<>>
  /\ LET h == handleFrame(rtu.data, rtu, busDiag)
     IN /\ rtu' = [rtu EXCEPT !.mode = "waitidle", !.data = <<>>,
                              !.pending = h.pending, !.txid = h.txid,
                              !.accessors =
                                 IF h.accessed
                                 THEN [pending |-> @.pending \cup {"wireFramer"},
                                       txid |-> @.txid \cup {"wireFramer"}]
                                 ELSE @]
        /\ busDiag' = h.busDiag
        /\ delivered' = delivered \o h.toDemux
  /\ UNCHANGED <<script, wire, reader, devid, buslog,
               cacheVars, busVars, reqVars, diag>>

\* wireWriter: case f := <-rtu.toTX, and rtu.pending[f.unit] = f.txid for a
\* request
WriterTake ==
  /\ focus \in {"rtu", "rtulong"}
  /\ rtu.wireWriter = "recv"
  /\ rtu.toTX # <<>>
  /\ LET f == Head(rtu.toTX)
     IN rtu' = [rtu EXCEPT !.toTX = Tail(@), !.f = f, !.wireWriter = "txready",
                           !.pending = IF f.request
                                       THEN PendingPut(@, f.unit, f.txid) ELSE @,
                           !.accessors =
                              IF f.request
                              THEN [@ EXCEPT !.pending = @ \cup {"wireWriter"}]
                              ELSE @]
  /\ UNCHANGED <<script, wire, reader, delivered, busDiag, devid, buslog,
               cacheVars, busVars, reqVars, diag>>

\* wireWriter: case <-rtu.txready, then the frame is built and written
WriterSend ==
  /\ focus \in {"rtu", "rtulong"}
  /\ rtu.wireWriter = "txready"
  /\ rtu.txready = 1
  /\ rtu' = [rtu EXCEPT !.txready = 0, !.wireWriter = "recv", !.f = NoAdu,
                        !.sent = Append(@, buildRTUFrame(rtu.f))]
  /\ busDiag' = IF rtu.f.request THEN busDiag ELSE response(busDiag, rtu.f.pdu)
  /\ UNCHANGED <<script, wire, reader, delivered, devid, buslog,
               cacheVars, busVars, reqVars, diag>>

RtuNext ==
  \/ RtuQueue
  \/ RtuRead
  \/ RtuDrain
  \/ FramerChar
  \/ TickerIdle
  \/ TickerUnblock
  \/ TickerPause
  \/ WriterTake
  \/ WriterSend

\* NewRTU, and the frames the remote units will put on the line
RtuSpecInit ==
  /\ focus \in {"rtu", "rtulong"}
  /\ script \in {f \in SeqsUpTo(SerialFrames, MaxSerial) :
                   focus = "rtulong" => Len(f) = 1}
  /\ wire = Bursts(script)
  /\ reader = IdleReader
  /\ delivered = <<>>
  /\ busDiag = NoBusDiag
  /\ rtu = IdleRtu
  /\ devid = NoDevId
  /\ buslog = NoLog
  /\ QueueStart /\ HandlersIdle /\ files = <<>>
  /\ cache = [k \in Kinds |-> <<>>]
  /\ BusStart /\ servers \in {[u \in ServerUnits |-> "nil"]}

RtuSpec == RtuSpecInit /\ [][RtuNext]_vars

\* the goroutines of the transport run when they can; nothing makes the
\* multiplexer queue a frame or a remote unit send one
FairRtuSpec ==
  /\ RtuSpec
  /\ WF_vars(RtuDrain) /\ WF_vars(FramerChar)
  /\ WF_vars(TickerIdle) /\ WF_vars(TickerUnblock) /\ WF_vars(TickerPause)
  /\ WF_vars(WriterTake) /\ WF_vars(WriterSend)

\* the step is wireFramer taking rxto and calling handleFrame(data)
FramerHandles == rtu.mode = "waitframe" /\ rtu'.mode = "waitidle"

\* C25: RTU frame round-trip.  When the frame handed to handleFrame is one
\* buildRTUFrame made and is at most 256 bytes long, handleFrame sends one
\* ADU with the same unit, function byte and payload to the multiplexer and
\* counts a message, and no communication error and no overrun.
C25_RtuRoundTrip ==
  [][ \A i \in 1..Len(script) :
        ( /\ FramerHandles
          /\ script[i].kind = "frame" /\ Len(script[i].bytes) <= MaxRtuFrame
          /\ rtu.data = script[i].bytes ) =>
          /\ Len(delivered') = Len(delivered) + 1
          /\ SubSeq(delivered', 1, Len(delivered)) = delivered
          /\ delivered'[Len(delivered')].unit = script[i].adu.unit
          /\ delivered'[Len(delivered')].pdu = script[i].adu.pdu
          /\ busDiag' = [busDiag EXCEPT !.Messages = @ + 1] ]_vars

\* a frame of 256 bytes has come through handleFrame
C25_Witness ==
  /\ Len(script) = 1 /\ script[1].kind = "frame"
  /\ Len(script[1].bytes) = MaxRtuFrame
  /\ Len(delivered) = 1
  /\ delivered[1].unit = script[1].adu.unit
  /\ delivered[1].pdu = script[1].adu.pdu

\* C26: RTU transmit liveness.  Every frame queued on toTX is eventually
\* written to the serial port, whether or not bytes arrive on the line: the
\* n-th frame queued is followed by the n-th frame written.
C26_TransmitLiveness ==
  \A n \in 1..MaxTx : (rtu.queued >= n) ~> (Len(rtu.sent) >= n)

\* the step is wireWriter taking the token from txready
WriterObtains == rtu.wireWriter = "txready" /\ rtu'.wireWriter = "recv"

\* C27: RTU transmit gating.  txready never holds more than one token, a
\* token is put in only when ticker goes from waitidle to isidle, and
\* wireWriter takes the token only while ticker is in isidle: not after a
\* received byte has set waitframe and before the idle period that follows
\* has passed.
C27_Gating ==
  [][ /\ rtu'.txready \in {0, 1}
      /\ rtu'.txready > rtu.txready => rtu.mode = "waitidle" /\ rtu'.mode = "isidle"
      /\ WriterObtains => rtu.mode = "isidle" ]_vars

\* wireWriter is about to write rtu.pending: a request is at the head of toTX
WriterAtPending ==
  rtu.wireWriter = "recv" /\ rtu.toTX # <<>> /\ Head(rtu.toTX).request

\* wireFramer is about to look a unit up in rtu.pending: rxto will hand it a
\* valid frame
FramerAtPending ==
  /\ rtu.ticker = "select" /\ rtu.mode = "waitframe"
  /\ handleFrame(rtu.data, rtu, busDiag).accessed

\* C30: single ownership.  rtu.pending and rtu.txid are each read and
\* written by one goroutine only, and no state has wireWriter and
\* wireFramer both at an access to rtu.pending.
C30_SingleOwner ==
  /\ \A t \in {"pending", "txid"} : Cardinality(rtu.accessors[t]) <= 1
  /\ ~(WriterAtPending /\ FramerAtPending)

(***************************************************************************)
(* Part VI (DevIdSpec): Read Device Identification (0x2B / 0x0E).  The     *)
(* client's DeviceIdentification asks section by section and request by    *)
(* request; the server's x2bDeviceIdentification answers each request from *)
(* s.deviceInfo.  A string is its position in the list and its length.     *)
(***************************************************************************)
MaxInfo == 8         \* strings in the deviceInfo list of a server

Standard == 7        \* object ids 0..6: x2bDeviceIdentification, oid >= 0x07
Extended == 128      \* object ids from 0x80: oid >= 0x80
Room == 252          \* x2bDeviceIdentification: remaining := 252

NoString == [text |-> 0, len |-> 0]

\* the lengths the i-th string of a list may have
InfoLens(i) == IF i = 1 THEN {1, 200, 250, 252} ELSE {1, 200}

\* the deviceInfo lists of n strings
DeviceInfos(n) ==
  {[i \in 1..n |-> [text |-> i, len |-> lens[i]]] :
     lens \in {l \in [1..n -> {1, 200, 250, 252}] : \A i \in 1..n : l[i] \in InfoLens(i)}}

RECURSIVE Fit(_, _)
\* x2bDeviceIdentification: for _, di := range tosend: the strings sent,
\* until one needs more than what remains
Fit(tosend, remaining) ==
  IF tosend = <<>> THEN <<>>
  ELSE LET diz == Head(tosend).len + 1
       IN IF remaining < diz THEN <<>>
          ELSE <<Head(tosend)>> \o Fit(Tail(tosend), remaining - diz)

\* limits := []int{0, 3, 7, oid + 1, oid + 1}; max := limits[code]
LimitOf(code, oid, n) == IF code = 1 THEN 3 ELSE IF code = 2 THEN 7 ELSE oid + 1

\* x2bDeviceIdentification for the request (code, origid) on the list info:
\* an exception, or conf, more, next and the objects with their ids
x2bDeviceIdentification(info, code, origid) ==
  LET n == Len(info)
      oid == IF origid >= Extended THEN origid - Extended + Standard ELSE origid
      refused ==
        \/ code < 1 \/ code > 4
        \/ (origid >= Standard /\ origid < Extended)
        \/ oid >= n
        \/ (code = 1 /\ oid > 2)
        \/ (code = 2 /\ (oid <= 2 \/ oid > 7))
        \/ (code = 3 /\ oid <= 7)
      limit == LimitOf(code, oid, n)
      max == IF limit > n THEN n ELSE limit
      tosend == SubSeq(info, oid + 1, max)
      sent == Fit(tosend, Room)
      more == Len(tosend) > Len(sent)
  IN IF refused
     THEN [ok |-> FALSE, conf |-> 0, more |-> 0, next |-> 0, objects |-> <<>>]
     ELSE [ok |-> TRUE,
           conf |-> (IF n > 7 THEN 3 ELSE IF n > 3 THEN 2 ELSE 1) + 128,
           more |-> IF more THEN 255 ELSE 0,
           next |-> IF more THEN origid + Len(sent) ELSE 0,
           objects |-> [i \in 1..Len(sent) |-> [oid |-> (i - 1) + origid,
                                                 str |-> sent[i]]]]

RECURSIVE Merge(_, _)
\* getMoreDeviceID, decode: fill.objects[oid] = string(obytes) for every
\* object of the response
Merge(objects, list) ==
  IF list = <<>> THEN objects
  ELSE Merge({o \in objects : o.oid # Head(list).oid} \cup {Head(list)}, Tail(list))

\* fill.objects[k], the empty string when the key is absent
ObjectAt(objects, k) ==
  IF \E o \in objects : o.oid = k
  THEN (CHOOSE o \in objects : o.oid = k).str ELSE NoString

RECURSIVE SortedFrom(_, _)
\* the strings of the keys from k on, in ascending order of the key
SortedFrom(objects, k) ==
  IF \A o \in objects : o.oid < k THEN <<>>
  ELSE IF \E o \in objects : o.oid = k
  THEN <<ObjectAt(objects, k)>> \o SortedFrom(objects, k + 1)
  ELSE SortedFrom(objects, k + 1)

\* DeviceIdentification, the end: the seven named fields, then Additional
\* from the keys >= 0x80 in ascending order
Identification(objects) ==
  [i \in 1..Standard |-> ObjectAt(objects, i - 1)] \o SortedFrom(objects, Extended)

\* getSection: the object id a section starts from
SectionStart(sect) == IF sect = 1 THEN 0 ELSE IF sect = 2 THEN 3 ELSE Extended

\* one request of getMoreDeviceID with its response decoded into fill; then
\* the loop of getSection, the next section of DeviceIdentification if the
\* conformity level has one, or the return
GetMoreDeviceID ==
  /\ focus = "devid"
  /\ devid.pc = "section"
  /\ LET fill == devid.fill
         r == x2bDeviceIdentification(devid.deviceInfo, fill.code, fill.next)
         got == [fill EXCEPT !.init = TRUE,
                             !.conforms = IF fill.init THEN @ ELSE r.conf,
                             !.next = r.next,
                             !.more = r.more # 0,
                             !.objects = Merge(@, r.objects)]
         level == got.conforms % 128
     IN devid' =
          IF ~r.ok THEN [devid EXCEPT !.pc = "returned", !.err = TRUE]
          ELSE IF got.more THEN [devid EXCEPT !.fill = got]
          ELSE IF fill.code < 3 /\ level >= fill.code + 1
          THEN [devid EXCEPT !.fill = [got EXCEPT !.code = fill.code + 1,
                                                  !.next = SectionStart(fill.code + 1),
                                                  !.more = TRUE]]
          ELSE [devid EXCEPT !.fill = got, !.pc = "returned",
                             !.ret = Identification(got.objects)]
  /\ UNCHANGED <<script, wire, reader, delivered, busDiag, rtu, buslog,
                 cacheVars, busVars, reqVars, diag>>

DevIdNext ==
  \/ GetMoreDeviceID

\* NewServer(id, deviceInfo) with at least 3 strings, and a client that has
\* called DeviceIdentification: getSection(c, 1, fill, tout)
DevIdSpecInit ==
  /\ focus = "devid"
  /\ \E n \in 3..MaxInfo : \E d \in DeviceInfos(n) :
       devid = [NoDevId EXCEPT !.deviceInfo = d, !.pc = "section",
                               !.fill = [@ EXCEPT !.code = 1, !.next = 0,
                                                  !.more = TRUE]]
  /\ script = <<>> /\ wire = <<>>
  /\ reader = IdleReader
  /\ delivered = <<>>
  /\ busDiag = NoBusDiag
  /\ rtu = IdleRtu
  /\ buslog = NoLog
  /\ QueueStart /\ HandlersIdle /\ files = <<>>
  /\ cache = [k \in Kinds |-> <<>>]
  /\ BusStart /\ servers \in {[u \in ServerUnits |-> "nil"]}

DevIdSpec == DevIdSpecInit /\ [][DevIdNext]_vars

\* the list the client should have: the first seven strings in the named
\* fields (empty where the list is shorter), the others in Additional
AllStrings ==
  [i \in 1..Standard |-> IF i <= Len(devid.deviceInfo) THEN devid.deviceInfo[i]
                         ELSE NoString]
  \o SubSeq(devid.deviceInfo, Standard + 1, Len(devid.deviceInfo))

\* C23: device identification reconstruction.  For a server with n >= 3
\* strings the client's DeviceIdentification returns without error, with
\* the strings 0..6 in the named fields and the strings from 7 on in
\* Additional in ascending order of their ids 0x80.., each once.
C23_DeviceIdentification ==
  devid.pc = "returned" => ~devid.err /\ devid.ret = AllStrings

(***************************************************************************)
(* Part VII: claims about the multiplexer, the bus diagnostics and the     *)
(* readers under input nobody asked for.                                   *)
(***************************************************************************)

\* the channel with a wildcard server and one goroutine that makes up to
\* MaxCalls client calls
MuxSpecInit ==
  /\ focus = "mux"
  /\ BusStart
  /\ servers = [u \in ServerUnits |-> IF u = Wildcard THEN "W" ELSE "nil"]
  /\ cache = [k \in Kinds |-> <<>>]
  /\ QueueStart /\ ReqStart
  /\ WireIdle

\* one goroutine whose calls all run into their timeout, and the remote unit
\* answering late
MuxNext ==
  \/ QueryStart("g1")
  \/ QueryStore("g1")
  \/ QueryBuild("g1")
  \/ QuerySend("g1")
  \/ QueryRecvTimeout("g1")
  \/ QueryReturn("g1")
  \/ AssociateForward
  \/ RemoteRespond
  \/ DemuxRX

MuxSpec == MuxSpecInit /\ [][MuxNext]_vars

\* C31: the inbound loop of the multiplexer waits for nothing but its
\* inbound channel: whatever timeouts and late responses came before, a
\* frame that has arrived on an open channel is routed without waiting.
C31_NonBlocking ==
  (isopen /\ ~crashed /\ inbound # <<>>) => ENABLED DemuxRX

(***************************************************************************)
(* Part VIII (DiagSpec): the bus diagnostics of part_011 with the event    *)
(* log, and function 0x08 of the server (serverMetadata.go) clearing them. *)
(* focus "diag" logs a few events of every kind; focus "diaglong" logs     *)
(* more events than the log holds.                                         *)
(***************************************************************************)
MaxLogged == 3       \* events logged in a short run, and beyond LogSize in a long one

ClearCounters == 10  \* x08Diagnostic: case 0x0a
BusMessageCount == 11 \* x08Diagnostic: case 0x0b
ClearOverrun == 20   \* x08Diagnostic: case 0x14

\* ServerDiagnostics{}
NoServerDiag == [Messages |-> 0, NoResponse |-> 0, ServerNAKs |-> 0, ServerBusy |-> 0,
                 Register |-> 0, EventCounter |-> 0]

\* plog: bdm.logEntries[bdm.logCount%64] = value; bdm.logCount++
plog(l, value) ==
  [l EXCEPT !.logEntries[l.logCount % LogSize] = value, !.logCount = @ + 1,
            !.logged = Append(@, value)]

\* getEventLog with the index one too high
getEventLogAhead(l) ==
  LET count == IF l.logCount > LogSize THEN LogSize ELSE l.logCount
  IN [i \in 1..count |-> l.logEntries[(l.logCount - (i - 1)) % LogSize]]

\* getEventLog: ret[i] = bdm.logEntries[(bdm.logCount-i-1)%64] for i < count
getEventLog(l) ==
  LET count == IF l.logCount > LogSize THEN LogSize ELSE l.logCount
  IN [i \in 1..count |-> l.logEntries[(l.logCount - (i - 1) - 1) % LogSize]]

\* busDiagnosticManager.clear on the log: bdm.logCount = 0
clearLog(l) == [l EXCEPT !.logCount = 0, !.logged = <<>>]

\* busDiagnosticManager.clearOverrun: bdm.diagnostics.Overruns = 0
clearOverrun(d) == [d EXCEPT !.Overruns = 0]

\* the value response() logs: busOutgoing and the bit of the exception code
responseLog(p) ==
  LET code == IF Len(p.data) > 0 THEN p.data[1] ELSE 0
  IN IF p.function >= 128
     THEN BitOr(64, IF code <= 3 THEN 1 ELSE IF code = 4 THEN 2
                    ELSE IF code <= 6 THEN 4 ELSE IF code = 7 THEN 8 ELSE 0)
     ELSE 64

\* the calls the transport goroutines make on the bus diagnostics
BusEventList ==
  << [op |-> "message", broadcast |-> FALSE, p |-> NoAdu.pdu],
     [op |-> "message", broadcast |-> TRUE, p |-> NoAdu.pdu],
     [op |-> "commError", broadcast |-> FALSE, p |-> NoAdu.pdu],
     [op |-> "overrun", broadcast |-> FALSE, p |-> NoAdu.pdu],
     [op |-> "response", broadcast |-> FALSE, p |-> [function |-> 3, data |-> <<2, 0, 1>>]],
     [op |-> "response", broadcast |-> FALSE, p |-> [function |-> 131, data |-> <<2>>]],
     [op |-> "response", broadcast |-> FALSE, p |-> [function |-> 128, data |-> <<4>>]],
     [op |-> "response", broadcast |-> FALSE, p |-> [function |-> 136, data |-> <<6>>]],
     [op |-> "response", broadcast |-> FALSE, p |-> [function |-> 131, data |-> <<7>>]] >>

\* the calls that can come next: any in a short run, one after the other in
\* a long run
BusEvents ==
  IF focus = "diaglong"
  THEN {BusEventList[((buslog.logCount + nreq) % Len(BusEventList)) + 1]}
  ELSE {BusEventList[i] : i \in 1..Len(BusEventList)}

\* message, commError, overrun or response run by the manager goroutine
BusEvent ==
  /\ focus \in {"diag", "diaglong"}
  /\ Len(buslog.logged) < (IF focus = "diaglong" THEN LogSize + MaxLogged ELSE MaxLogged)
  /\ \E e \in BusEvents :
       CASE e.op = "message" ->
              /\ busDiag' = message(busDiag, 1)
              /\ buslog' = plog(buslog, BitOr(128, IF e.broadcast THEN 64 ELSE 0))
         [] e.op = "commError" ->
              /\ busDiag' = commError(busDiag, 1)
              /\ buslog' = plog(buslog, BitOr(128, 2))
         [] e.op = "overrun" ->
              /\ busDiag' = overrun(busDiag, 1)
              /\ buslog' = plog(buslog, BitOr(128, 16))
         [] OTHER ->
              /\ busDiag' = response(busDiag, e.p)
              /\ buslog' = plog(buslog, responseLog(e.p))
  /\ UNCHANGED <<script, wire, reader, delivered, rtu, devid,
                 cacheVars, busVars, reqVars, diag>>

\* x08Diagnostic for the sub-functions of a run, after subfn was read: the
\* check word must be 0
x08Diagnostic(subfn, check, sd, d, l) ==
  IF check # 0 THEN [res |-> PlainError, diag |-> sd, busDiag |-> d, buslog |-> l]
  ELSE IF subfn = ClearCounters
  THEN \* s.diag.clear(); mb.clearDiagnostics()
       [res |-> OkResult(Word(subfn) \o Word(0)), diag |-> NoServerDiag,
        busDiag |-> NoBusDiag, buslog |-> clearLog(l)]
  ELSE IF subfn = ClearOverrun
  THEN \* s.diag.clear(); mb.clearOverrunCounter()
       [res |-> OkResult(Word(subfn) \o Word(0)), diag |-> NoServerDiag,
        busDiag |-> clearOverrun(d), buslog |-> l]
  ELSE \* diagGenericCount("Bus Messages", mb.Diagnostics().Messages, ...)
       [res |-> OkResult(Word(subfn) \o Word(IF d.Messages > 65535 THEN 65535
                                              ELSE d.Messages)),
        diag |-> sd, busDiag |-> d, buslog |-> l]

\* server.request for function 0x08: s.diag.message(), eventQueued, the
\* handler, s.diag.eventCounter() when it returned no error, eventComplete
ServeDiagnostic ==
  /\ focus \in {"diag", "diaglong"}
  /\ nreq < (IF focus = "diaglong" THEN 1 ELSE MaxRequests)
  /\ \E subfn \in {ClearCounters, BusMessageCount, ClearOverrun}, check \in {0, 1} :
       /\ focus = "diaglong" => subfn = ClearCounters /\ check = 0
       /\ LET h == x08Diagnostic(subfn, check, [diag EXCEPT !.Messages = @ + 1],
                                 busDiag, buslog)
          IN /\ diag' = IF h.res.ok THEN [h.diag EXCEPT !.EventCounter = @ + 1]
                        ELSE h.diag
             /\ busDiag' = h.busDiag
             /\ buslog' = h.buslog
             /\ prev' = [op |-> "diagnostic", subfn |-> subfn, check |-> check,
                         res |-> h.res]
  /\ queue' = queue - 2
  /\ nreq' = nreq + 1
  /\ UNCHANGED <<script, wire, reader, delivered, rtu, devid,
                 cacheVars, busVars, files, holder, hs>>

DiagNext ==
  \/ BusEvent
  \/ ServeDiagnostic

\* newModbus and NewServer: no event logged, no request served
DiagSpecInit ==
  /\ focus \in {"diag", "diaglong"}
  /\ script = <<>> /\ wire = <<>>
  /\ reader = IdleReader
  /\ delivered = <<>>
  /\ busDiag = NoBusDiag
  /\ buslog = NoLog
  /\ rtu = IdleRtu
  /\ devid = NoDevId
  /\ QueueStart /\ files = <<>>
  /\ holder = "none" /\ hs = [h \in Handlers |-> IdleHandler]
  /\ queue = 0 /\ prev = NoPrev /\ nreq = 0
  /\ diag = NoServerDiag
  /\ cache = [k \in Kinds |-> <<>>]
  /\ BusStart /\ servers \in {[u \in ServerUnits |-> "nil"]}

DiagSpec == DiagSpecInit /\ [][DiagNext]_vars

\* the step that serves Diagnostic sub-function 0x0a without error
ServesClear ==
  /\ nreq' = nreq + 1
  /\ prev'.op = "diagnostic" /\ prev'.subfn = ClearCounters /\ prev'.res.ok

\* C32: the bus event log.  After n events logged since creation or the
\* last clear, getEventLog returns min(n, 64) entries and entry i (from 0)
\* is the (i+1)-th most recent event; after clear the log is empty and the
\* four bus counters are zero.
C32_EventLog ==
  /\ [](LET ret == getEventLog(buslog)
            n == Len(buslog.logged)
        IN /\ Len(ret) = (IF n < LogSize THEN n ELSE LogSize)
           /\ \A i \in 0..(Len(ret) - 1) : ret[i + 1] = buslog.logged[n - i])
  /\ [][ServesClear => /\ getEventLog(buslog') = <<>>
                       /\ busDiag' = NoBusDiag]_vars

\* more than 64 events were logged, were cleared, and more than 64 events
\* were logged again
C32_Witness ==
  /\ focus = "diaglong"
  /\ nreq = 1
  /\ Len(buslog.logged) > LogSize
  /\ getEventLog(buslog)[1] # getEventLog(buslog)[2]


\* the step that serves Diagnostic sub-function 0x14 without error
ServesClearOverrun ==
  /\ nreq' = nreq + 1
  /\ prev'.op = "diagnostic" /\ prev'.subfn = ClearOverrun /\ prev'.res.ok

\* C33: serving Diagnostic sub-function 0x14 resets the bus Overruns counter
\* and nothing else: the other bus counters and the event log stay, and no
\* counter of the server is reset.
C33_ClearOverrunFrame ==
  [][ServesClearOverrun =>
       /\ busDiag'.Overruns = 0
       /\ busDiag'.Messages = busDiag.Messages
       /\ busDiag'.CommErrors = busDiag.CommErrors
       /\ busDiag'.Exceptions = busDiag.Exceptions
       /\ buslog' = buslog
       /\ \A c \in {"Messages", "NoResponse", "ServerNAKs", "ServerBusy", "EventCounter"} :
            diag'[c] >= diag[c]]_vars


RECURSIVE PayloadSize(_)
\* the bytes x2bDeviceIdentification puts into the response: six bytes of
\* header, and response.byte(i + origid) and response.nbytes(...) per object
PayloadSize(objects) ==
  IF objects = <<>> THEN 6
  ELSE 1 + 1 + Head(objects).str.len + PayloadSize(Tail(objects))

\* C34: the fragments of a device identification.  The payload the server
\* builds for a valid request is at most 253 bytes, and a fragment that
\* sets more = 0xFF holds at least one object, so that next is greater than
\* the object id asked for.
C34_FragmentSize ==
  devid.pc = "section" =>
    LET r == x2bDeviceIdentification(devid.deviceInfo, devid.fill.code, devid.fill.next)
    IN r.ok => /\ PayloadSize(r.objects) <= MaxPdu
               /\ r.more = 255 => Len(r.objects) >= 1 /\ r.next > devid.fill.next


(***************************************************************************)
(* Part IX (TimingSpec): NewRTU called with the arguments of a run.        *)
(***************************************************************************)
\* the arguments of NewRTU: baud, parity, stopbits, minFrame
SerialOptions ==
  [baud : {300, 1200, 9600, 19200, 38400, 115200}, parity : {"N", "E", "O", "X"},
   stopbits : {1, 2, 3}, minFrame : {0, 2 * Millisecond, 5 * Millisecond}]

\* NewRTU: an error for a parity or a number of stop bits it does not know,
\* else the transport with its pause and idle times
NewRTU ==
  /\ focus = "timing"
  /\ rtu.mode = "new"
  /\ rtu' = IF rtu.options.parity \notin {"N", "E", "O"} \/ rtu.options.stopbits \notin {1, 2}
            THEN [rtu EXCEPT !.mode = "error"]
            ELSE [rtu EXCEPT !.mode = "waitidle", !.pause = Timing(rtu.options).pause,
                             !.idle = Timing(rtu.options).idle]
  /\ UNCHANGED <<script, wire, reader, delivered, busDiag, devid, buslog,
                 cacheVars, busVars, reqVars, diag>>

TimingNext ==
  \/ NewRTU

\* the program is about to call NewRTU
TimingSpecInit ==
  /\ focus = "timing"
  /\ \E o \in SerialOptions :
       rtu = [IdleRtu EXCEPT !.mode = "new", !.options = o, !.pause = 0, !.idle = 0]
  /\ script = <<>> /\ wire = <<>>
  /\ reader = IdleReader
  /\ delivered = <<>>
  /\ busDiag = NoBusDiag
  /\ buslog = NoLog
  /\ devid = NoDevId
  /\ QueueStart /\ HandlersIdle /\ files = <<>>
  /\ cache = [k \in Kinds |-> <<>>]
  /\ BusStart /\ servers \in {[u \in ServerUnits |-> "nil"]}

TimingSpec == TimingSpecInit /\ [][TimingNext]_vars

\* C35: the RTU timing.  With bc = 8 + stop bits + 1 for a parity bit and
\* the half-character time hc = bc / (2 * baud) seconds, the frame-end
\* pause is the largest of 3 * hc, 1 ms and minFrame, and the bus-idle
\* delay is the larger of 4 * hc and 2 ms.
C35_Timing ==
  (focus = "timing" /\ rtu.mode = "waitidle") =>
    LET o == rtu.options
        bc == 8 + o.stopbits + (IF o.parity # "N" THEN 1 ELSE 0)
        hc == Seconds(bc, 2 * o.baud)
        floor == IF Millisecond < o.minFrame THEN o.minFrame ELSE Millisecond
    IN /\ rtu.pause = (IF 3 * hc < floor THEN floor ELSE 3 * hc)
       /\ rtu.idle = (IF 4 * hc < 2 * Millisecond THEN 2 * Millisecond ELSE 4 * hc)


\* the request of c has been handed to the channel and has no outcome yet
Outstanding(c) == q[c].pc = "recv"

\* C36: transaction ids are distinct.  Two client requests that are
\* outstanding on the channel at the same time carry different transaction
\* ids, so that a response matches one request at most.
C36_DistinctTxids ==
  \A c1, c2 \in Goroutines :
    (c1 # c2 /\ Outstanding(c1) /\ Outstanding(c2)) => q[c1].a.txid # q[c2].a.txid


\* demuxRX takes the frame at the head of the socket
DemuxTakes == isopen /\ ~crashed /\ inbound # <<>> /\ isopen' /\ inbound' = Tail(inbound)

\* the frame at the head of the socket is a request of the remote side for a
\* unit that is served here
RequestAtHead ==
  /\ inbound # <<>>
  /\ Head(inbound).pdu \in InboundPDUs
  /\ servers[Head(inbound).unit] # "nil" \/ servers[Wildcard] # "nil"

\* C37: requests nobody asked for are not taken for responses.  A frame
\* goes into a client's mailbox only when it is the reply of that client's
\* unit to a request that is still pending, and a request for a unit served
\* here goes to the server also while client requests are outstanding.
C37_Unsolicited ==
  [][DemuxTakes =>
       /\ rx' # rx => /\ Head(inbound).pdu \notin InboundPDUs
                      /\ Head(inbound).txid \in pending
                      /\ Head(inbound).unit \in clients
       /\ RequestAtHead => /\ rx' = rx
                           /\ \E h \in handling' : h.req = Head(inbound)]_vars


\* C38: the multiplexer does not fail on inbound data.  Whatever frame
\* arrives, also one whose txid is pending and whose unit has no client
\* handle, the inbound loop delivers it, dispatches it or drops it and keeps
\* running.
C38_DemuxSurvives == ~crashed


\* C39: the TCP reader does not fail on malformed input.  Whatever bytes
\* arrive, also a header of 7 bytes whose length field is 0 or 1, the
\* reader delivers a well-formed ADU or drops the data and counts an error;
\* it never reads past the end of the frame it has assembled.
C39_ReaderSurvives == ~reader.panicked

\* C40: failed requests do not mutate the cache.  When the only request the
\* server has been given so far is answered with an error, whatever the
\* reason (a write request with payload bytes left over after its fields
\* included), the coils, the holdings and the files are what they were when
\* the request started.
C40_FailedRequestsKeepCache ==
  \A h \in Handlers :
    (nreq = 1 /\ hs[h].pc \in {"return", "done"} /\ ~hs[h].res.ok) =>
      /\ cache = hs[h].before.cache
      /\ files = hs[h].before.files
=============================================================================
